---- MODULE Spec2Model ----
(***************************************************************************)
(* A model of the crawler's orchestration core:                            *)
(*   - the worker pool of the main package (Crawler.Start, Crawler.worker, *)
(*     crawlUserVideos, crawlVideoComments, crawlProductInfo);             *)
(*   - the checkpoint store (utils/checkpoint, Manager).                   *)
(* Each component has a specification of its own; the variables of the     *)
(* other component stay at their initial value.                            *)
(***************************************************************************)
EXTENDS Integers, Sequences, FiniteSets, Bags, TLC

\* ------------------------------------------------------------------ bounds
NumSeeds == 2
MaxRetries == 1
MaxVideos == 1

\* the worker goroutines Start may spawn, in the order it spawns them;
\* config.Concurrency ranges over 1..Cardinality(Workers)
Workers == {1, 2}
UserIDs == {"u1", "u2"}
\* the non-empty cursors a remote may return; "" is "no more data"
Cursors == {"c1", "c2"}
ProductIDs == {"", "p1"}

VARIABLES
    \* ---- main package, Crawler
    config,         \* Config: Concurrency, Retries
    userIDs,        \* the argument of Start: a sequence of user IDs
    urlChannel,     \* the buffered channel: positions of userIDs in flight
    closed,         \* close(c.urlChannel) has run
    wg,             \* the WaitGroup counter
    startPc,        \* where Start is: "spawn", "enqueue", "wait", "done"
    spawned,        \* Start's loop variable i
    nextSeed,       \* Start's range index over userIDs (next position to send)
    worker,         \* per worker goroutine: its position and its locals
    received,       \* history: per position, the workers that received it, in order
    remote,         \* the remote platform: the cursors and pages it may answer with
    \* ---- utils/checkpoint, Manager
    mcfg,           \* m.enabled, m.interval
    data,           \* m.data: ProcessedUsers, ProcessedVideos, UserCursors, ...
    mutex,          \* m.mutex: 0 when free, else the caller that holds it
    lastSave,       \* m.lastSave
    now,            \* the wall clock, in seconds since NewManager
    file,           \* the content of m.file
    caller,         \* per calling goroutine: the Manager method it is in
    crashed,        \* a caller panicked: the process is gone
    hist,           \* history: the Mark* calls made and applied since the last Load
    \* ---- ratelimit, Limiter
    limiter,        \* the Limiter's fields, and who holds l.mutex (0: nobody)
    waiter,         \* per goroutine: where it is in Wait
    clock,          \* the wall clock, in ticks since NewLimiter
    lhist,          \* history: the Wait calls made and returned
    \* ---- crawler, ProxyPool
    pool,           \* p.proxies (addresses), p.maxFailures, the read holders of p.mutex
    heap,           \* the ProxyInfo objects, by address
    proxyFile,      \* the content of p.proxyFile
    getter,         \* per calling goroutine: where it is in GetProxy
    sweep,          \* the goroutine of ValidateAllProxies
    persists,       \* the goroutines of "go p.SaveProxies()"
    poolCalls,      \* history: the calls made on the pool so far
    loader,         \* NewProxyPool: where it is, and what LoadProxies finds on disk
    \* ---- main package, main and the sinks
    main,           \* main(): where it is, its flags and arguments
    \* ---- utils/proxy, Manager
    proxyManager,   \* the Manager's fields
    rotation,       \* the wall clock, the callers of GetProxy/RotateProxy, history
    events          \* history: per position of userIDs, the fetches and saves made for it

crawlerVars == <<config, userIDs, urlChannel, closed, wg, startPc, spawned,
                 nextSeed, worker, received, remote>>
checkpointVars == <<mcfg, data, mutex, lastSave, now, file, caller, crashed, hist>>
limiterVars == <<limiter, waiter, clock, lhist>>
proxyVars == <<pool, heap, proxyFile, getter, sweep, persists, poolCalls>>
loaderVars == <<loader>>
mainVars == <<main>>
observerVars == <<events>>
managerVars == <<proxyManager, rotation>>
vars == <<crawlerVars, checkpointVars, limiterVars, proxyVars, loaderVars, mainVars,
          observerVars, managerVars>>

\* what the actions of one component leave as it is
OutsideCrawler == <<checkpointVars, limiterVars, proxyVars, loaderVars, mainVars,
                    observerVars, managerVars>>
OutsideCheckpoint == <<crawlerVars, limiterVars, proxyVars, loaderVars, mainVars,
                       observerVars, managerVars>>
OutsideLimiter == <<crawlerVars, checkpointVars, proxyVars, loaderVars, mainVars,
                    observerVars, managerVars>>
OutsidePool == <<crawlerVars, checkpointVars, limiterVars, loaderVars, mainVars,
                 observerVars, managerVars>>

\* ------------------------------------------------------- checkpoint store
MaxTime == 1
MaxCalls == 3

Callers == {1, 2}
IDs == {"a", "b"}
\* m.interval: auto-save off, or every MaxTime seconds
Intervals == {0, MaxTime}

\* A Go map: nil, or a function kv on its key set.
Nil == [ nil |-> TRUE, kv |-> << >> ]
EmptyMap == [ nil |-> FALSE, kv |-> << >> ]

\* NewManager: the Data a fresh Manager holds (the clock starts at 0)
NewData ==
    [ Platform        |-> "",
      StartTime       |-> 0,
      LastUpdateTime  |-> 0,
      ProcessedUsers  |-> EmptyMap,
      ProcessedVideos |-> EmptyMap,
      UserCursors     |-> EmptyMap,
      CommentCursors  |-> EmptyMap,
      Stats           |-> [ TotalUsers |-> 0, TotalVideos |-> 0,
                            TotalComments |-> 0, TotalProducts |-> 0 ] ]

\* var checkpointData Data: the zero Data that Load decodes into
ZeroData ==
    [ NewData EXCEPT !.ProcessedUsers = Nil, !.ProcessedVideos = Nil,
                     !.UserCursors = Nil, !.CommentCursors = Nil ]

\* reading a Go map: the zero value when the key is missing or the map is nil
MapGet(m, k, zero) == IF ~m.nil /\ k \in DOMAIN m.kv THEN m.kv[k] ELSE zero

\* m[k] = v on a non-nil map
MapPut(m, k, v) ==
    [ nil |-> FALSE,
      kv  |-> [ x \in DOMAIN m.kv \cup {k} |-> IF x = k THEN v ELSE m.kv[x] ] ]

\* the keys a map[string]bool holds true for
TrueKeys(m) == IF m.nil THEN {} ELSE { k \in DOMAIN m.kv : m.kv[k] }

\* IsUserProcessed / IsVideoProcessed
IsUserProcessed(userID) == mcfg.enabled /\ MapGet(data.ProcessedUsers, userID, FALSE)
IsVideoProcessed(videoID) == mcfg.enabled /\ MapGet(data.ProcessedVideos, videoID, FALSE)

\* GetUserCursor
GetUserCursor(userID) ==
    IF mcfg.enabled THEN MapGet(data.UserCursors, userID, "") ELSE ""

\* GetCommentCursor
GetCommentCursor(videoID) ==
    IF mcfg.enabled THEN MapGet(data.CommentCursors, videoID, "") ELSE ""

\* encoding/json on a map: null for the nil map, else an object, here the
\* set of its <<key, value>> members
JsonNull == [ null |-> TRUE, members |-> {} ]
MarshalMap(m) ==
    IF m.nil THEN JsonNull
    ELSE [ null |-> FALSE, members |-> { <<k, m.kv[k]>> : k \in DOMAIN m.kv } ]

\* encoding/json into a nil map: null leaves it nil, an object builds the map
UnmarshalMap(j) ==
    IF j.null THEN Nil
    ELSE [ nil |-> FALSE,
           kv  |-> [ k \in { e[1] : e \in j.members } |->
                        (CHOOSE e \in j.members : e[1] = k)[2] ] ]

\* variant: Data with the json tag user_cursors on the CommentCursors field
MarshalSwapped(d) ==
    [ platform         |-> d.Platform,
      start_time       |-> d.StartTime,
      last_update_time |-> d.LastUpdateTime,
      processed_users  |-> MarshalMap(d.ProcessedUsers),
      processed_videos |-> MarshalMap(d.ProcessedVideos),
      user_cursors     |-> MarshalMap(d.CommentCursors),
      stats            |-> [ total_users    |-> d.Stats.TotalUsers,
                             total_videos   |-> d.Stats.TotalVideos,
                             total_comments |-> d.Stats.TotalComments,
                             total_products |-> d.Stats.TotalProducts ] ]

\* json.MarshalIndent(m.data): one member per json tag of Data and Stats
Marshal(d) ==
    [ platform         |-> d.Platform,
      start_time       |-> d.StartTime,
      last_update_time |-> d.LastUpdateTime,
      processed_users  |-> MarshalMap(d.ProcessedUsers),
      processed_videos |-> MarshalMap(d.ProcessedVideos),
      user_cursors     |-> MarshalMap(d.UserCursors),
      comment_cursors  |-> MarshalMap(d.CommentCursors),
      stats            |-> [ total_users    |-> d.Stats.TotalUsers,
                             total_videos   |-> d.Stats.TotalVideos,
                             total_comments |-> d.Stats.TotalComments,
                             total_products |-> d.Stats.TotalProducts ] ]

\* a member of a decoded object, or the zero value when the object lacks it
Member(j, name, zero) == IF name \in DOMAIN j THEN j[name] ELSE zero

\* json.Unmarshal(data, &checkpointData): a member the snapshot lacks keeps
\* its zero value
Unmarshal(j) ==
    LET st == Member(j, "stats", << >>) IN
    [ Platform        |-> Member(j, "platform", ""),
      StartTime       |-> Member(j, "start_time", 0),
      LastUpdateTime  |-> Member(j, "last_update_time", 0),
      ProcessedUsers  |-> UnmarshalMap(Member(j, "processed_users", JsonNull)),
      ProcessedVideos |-> UnmarshalMap(Member(j, "processed_videos", JsonNull)),
      UserCursors     |-> UnmarshalMap(Member(j, "user_cursors", JsonNull)),
      CommentCursors  |-> UnmarshalMap(Member(j, "comment_cursors", JsonNull)),
      Stats           |-> [ TotalUsers    |-> Member(st, "total_users", 0),
                            TotalVideos   |-> Member(st, "total_videos", 0),
                            TotalComments |-> Member(st, "total_comments", 0),
                            TotalProducts |-> Member(st, "total_products", 0) ] ]

\* m.file: absent, a JSON snapshot, or bytes that do not parse
Absent == [ state |-> "absent", json |-> << >> ]
Garbage == [ state |-> "garbage", json |-> << >> ]
Snapshot(j) == [ state |-> "json", json |-> j ]

\* Save: what os.WriteFile(m.file, json.MarshalIndent(m.data)) leaves
Written(d) == Snapshot(Marshal(d))

\* variant: a Load that installs the decoded Data also when there is no file
LoadedOrZero(f, d) == IF f.state = "json" THEN Unmarshal(f.json) ELSE ZeroData

\* Load: the Data a Manager holding d has after Load() of file f returned nil
Loaded(f, d) == IF f.state = "json" THEN Unmarshal(f.json) ELSE d

\* Load: how a call may end on file f: "absent" (no file, nil), "loaded"
\* (nil), or "failed" (os.ReadFile or json.Unmarshal gave an error)
LoadOutcomes(f) ==
    IF f.state = "absent" THEN { "absent" }
    ELSE IF f.state = "json" THEN { "loaded", "failed" }
    ELSE { "failed" }

\* variant: a Load that decodes straight into m.data, so that a failed
\* decoding leaves the zero Data behind
LoadResultInPlace(outcome, f, d) ==
    IF outcome = "failed" THEN ZeroData ELSE Loaded(f, d)

\* Load: m.data after a call that ended with outcome
LoadResult(outcome, f, d) ==
    IF outcome = "failed" THEN d ELSE Loaded(f, d)

\* variant: a CheckSave without its `m.interval <= 0` guard
CheckSaveDueNoGuard ==
    /\ mcfg.enabled
    /\ now - lastSave >= mcfg.interval

\* CheckSave: is a save due
CheckSaveDue ==
    /\ mcfg.enabled
    /\ mcfg.interval > 0
    /\ now - lastSave >= mcfg.interval

NoCall == [ pc |-> "idle", op |-> "", id |-> "", cursor |-> "", auto |-> FALSE ]

\* History of the Mark* calls since the store was created or last loaded,
\* per kind: made counts the calls that returned, applied those that wrote,
\* ids the ids they were given; base and baseIds are the counter and the
\* processed-set at that time.  autoAt lists, for each save that the
\* CheckSave of a Mark* call started, <<time, lastSave at that time>>;
\* calls counts all calls; load is how the last Load ended ("" before the
\* first one).
HistFor(d) ==
    [ made    |-> [ User |-> 0, Video |-> 0 ],
      applied |-> [ User |-> 0, Video |-> 0 ],
      ids     |-> [ User |-> {}, Video |-> {} ],
      base    |-> [ User |-> d.Stats.TotalUsers, Video |-> d.Stats.TotalVideos ],
      baseIds |-> [ User |-> TrueKeys(d.ProcessedUsers),
                    Video |-> TrueKeys(d.ProcessedVideos) ],
      autoAt  |-> << >>,
      calls   |-> 0,
      load    |-> "" ]

\* NewManager(config), and the Data it holds after startup
InitCheckpoint(cfg, d) ==
    /\ mcfg = cfg
    /\ data = d
    /\ mutex = 0
    /\ lastSave = 0
    /\ now = 0
    /\ caller = [ t \in Callers |-> NoCall ]
    /\ crashed = FALSE
    /\ hist = HistFor(d)

\* the methods a caller may be in
Methods ==
    { "MarkUserProcessed", "MarkVideoProcessed", "SetUserCursor",
      "SetCommentCursor", "IncrementCommentCount", "IncrementProductCount",
      "Save", "Load", "CheckSave" }
HasID == { "MarkUserProcessed", "MarkVideoProcessed", "SetUserCursor", "SetCommentCursor" }
HasCursor == { "SetUserCursor", "SetCommentCursor" }
KindOf(op) == IF op = "MarkUserProcessed" THEN "User" ELSE "Video"

\* history: a Mark* call of kind k with id returned / wrote
Returned(h, k, id) == [ h EXCEPT !.made[k] = @ + 1, !.ids[k] = @ \cup {id} ]
Applied(h, k, id) == [ h EXCEPT !.applied[k] = @ + 1, !.ids[k] = @ \cup {id} ]

\* a caller enters a method: `if !m.enabled { return }`, else
\* m.mutex.Lock(), which returns at once when the mutex is free and blocks
\* otherwise (CheckSave takes no lock of its own)
Enter(t) ==
    /\ ~crashed
    /\ caller[t].pc = "idle"
    /\ hist.calls < MaxCalls
    /\ \E op \in Methods :
       \E id \in (IF op \in HasID THEN IDs ELSE {""}) :
       \E c \in (IF op \in HasCursor THEN {"c1"} ELSE {""}) :
          IF ~mcfg.enabled
          THEN /\ hist' = IF op \in { "MarkUserProcessed", "MarkVideoProcessed" }
                          THEN [ Returned(hist, KindOf(op), id) EXCEPT !.calls = @ + 1 ]
                          ELSE [ hist EXCEPT !.calls = @ + 1 ]
               /\ UNCHANGED <<caller, mutex>>
          ELSE /\ hist' = [ hist EXCEPT !.calls = @ + 1 ]
               /\ caller' = [ caller EXCEPT ![t] =
                     [ pc |-> IF op = "CheckSave" THEN "CheckSave"
                              ELSE IF mutex = 0 THEN "locked" ELSE "lock",
                       op |-> op, id |-> id, cursor |-> c, auto |-> FALSE ] ]
               /\ mutex' = IF op # "CheckSave" /\ mutex = 0 THEN t ELSE mutex
    /\ UNCHANGED <<mcfg, data, lastSave, now, file, crashed>>

\* a blocked m.mutex.Lock() returns once the mutex is free: sync.Mutex is
\* not reentrant
Lock(t) ==
    /\ ~crashed
    /\ caller[t].pc = "lock"
    /\ mutex = 0
    /\ mutex' = t
    /\ caller' = [ caller EXCEPT ![t].pc = "locked" ]
    /\ UNCHANGED <<mcfg, data, lastSave, now, file, crashed, hist>>

\* m.CheckSave() at the end of a Mark* method, then the deferred Unlock:
\* when a save is due CheckSave calls m.Save(), which starts with
\* m.mutex.Lock() while the caller still holds the mutex
CheckSaveAndReturn(t, h, k) ==
    IF CheckSaveDue
    THEN /\ caller' = [ caller EXCEPT ![t] =
               [ pc |-> "lock", op |-> "Save", id |-> "", cursor |-> "", auto |-> TRUE ] ]
         /\ hist' = [ h EXCEPT !.autoAt = Append(@, <<now, lastSave>>) ]
         /\ UNCHANGED mutex
    ELSE /\ caller' = [ caller EXCEPT ![t] = NoCall ]
         /\ hist' = Returned(h, k, caller[t].id)
         /\ mutex' = 0

\* variant: a MarkUserProcessed that counts an id only the first time
MarkedUserOnce(d, userID) ==
    IF MapGet(d.ProcessedUsers, userID, FALSE)
    THEN d
    ELSE [ d EXCEPT !.ProcessedUsers = MapPut(@, userID, TRUE), !.Stats.TotalUsers = @ + 1 ]

\* what MarkUserProcessed writes
MarkedUser(d, userID) ==
    [ d EXCEPT !.ProcessedUsers = MapPut(@, userID, TRUE), !.Stats.TotalUsers = @ + 1 ]

\* what MarkVideoProcessed writes
MarkedVideo(d, videoID) ==
    [ d EXCEPT !.ProcessedVideos = MapPut(@, videoID, TRUE), !.Stats.TotalVideos = @ + 1 ]

\* MarkUserProcessed, under the lock; an assignment to an entry of a nil map panics
MarkUserProcessed(t) ==
    /\ ~crashed
    /\ caller[t].pc = "locked"
    /\ caller[t].op = "MarkUserProcessed"
    /\ IF data.ProcessedUsers.nil
       THEN /\ crashed' = TRUE
            /\ UNCHANGED <<data, mutex, caller, hist>>
       ELSE /\ data' = MarkedUser(data, caller[t].id)
            /\ CheckSaveAndReturn(t, Applied(hist, "User", caller[t].id), "User")
            /\ UNCHANGED crashed
    /\ UNCHANGED <<mcfg, lastSave, now, file>>

\* MarkVideoProcessed, under the lock
MarkVideoProcessed(t) ==
    /\ ~crashed
    /\ caller[t].pc = "locked"
    /\ caller[t].op = "MarkVideoProcessed"
    /\ IF data.ProcessedVideos.nil
       THEN /\ crashed' = TRUE
            /\ UNCHANGED <<data, mutex, caller, hist>>
       ELSE /\ data' = MarkedVideo(data, caller[t].id)
            /\ CheckSaveAndReturn(t, Applied(hist, "Video", caller[t].id), "Video")
            /\ UNCHANGED crashed
    /\ UNCHANGED <<mcfg, lastSave, now, file>>

\* the deferred m.mutex.Unlock() and the return
Return(t) ==
    /\ caller' = [ caller EXCEPT ![t] = NoCall ]
    /\ mutex' = 0

\* SetUserCursor, under the lock
SetUserCursor(t) ==
    /\ ~crashed
    /\ caller[t].pc = "locked"
    /\ caller[t].op = "SetUserCursor"
    /\ IF data.UserCursors.nil
       THEN /\ crashed' = TRUE
            /\ UNCHANGED <<data, mutex, caller>>
       ELSE /\ data' = [ data EXCEPT !.UserCursors = MapPut(@, caller[t].id, caller[t].cursor) ]
            /\ Return(t)
            /\ UNCHANGED crashed
    /\ UNCHANGED <<mcfg, lastSave, now, file, hist>>

\* SetCommentCursor, under the lock
SetCommentCursor(t) ==
    /\ ~crashed
    /\ caller[t].pc = "locked"
    /\ caller[t].op = "SetCommentCursor"
    /\ IF data.CommentCursors.nil
       THEN /\ crashed' = TRUE
            /\ UNCHANGED <<data, mutex, caller>>
       ELSE /\ data' = [ data EXCEPT !.CommentCursors = MapPut(@, caller[t].id, caller[t].cursor) ]
            /\ Return(t)
            /\ UNCHANGED crashed
    /\ UNCHANGED <<mcfg, lastSave, now, file, hist>>

\* IncrementCommentCount, under the lock
IncrementCommentCount(t) ==
    /\ ~crashed
    /\ caller[t].pc = "locked"
    /\ caller[t].op = "IncrementCommentCount"
    /\ data' = [ data EXCEPT !.Stats.TotalComments = @ + 1 ]
    /\ Return(t)
    /\ UNCHANGED <<mcfg, lastSave, now, file, crashed, hist>>

\* IncrementProductCount, under the lock
IncrementProductCount(t) ==
    /\ ~crashed
    /\ caller[t].pc = "locked"
    /\ caller[t].op = "IncrementProductCount"
    /\ data' = [ data EXCEPT !.Stats.TotalProducts = @ + 1 ]
    /\ Return(t)
    /\ UNCHANGED <<mcfg, lastSave, now, file, crashed, hist>>

\* Save, under the lock: stamp LastUpdateTime, marshal, write the file; only
\* a write that succeeded moves lastSave.  A failed os.WriteFile leaves the
\* file as it was or truncated.
Save(t) ==
    /\ ~crashed
    /\ caller[t].pc = "locked"
    /\ caller[t].op = "Save"
    /\ data' = [ data EXCEPT !.LastUpdateTime = now ]
    /\ \/ /\ file' = Written(data')
          /\ lastSave' = now
       \/ /\ file' \in {file, Garbage}
          /\ UNCHANGED lastSave
    /\ Return(t)
    /\ UNCHANGED <<mcfg, now, crashed, hist>>

\* Load, under the lock: no file is no error; a file that cannot be read or
\* parsed is an error and leaves m.data; else m.data is the decoded snapshot
Load(t) ==
    /\ ~crashed
    /\ caller[t].pc = "locked"
    /\ caller[t].op = "Load"
    /\ \E outcome \in LoadOutcomes(file) :
          /\ data' = LoadResult(outcome, file, data)
          /\ hist' = IF outcome = "loaded"
                      THEN [ HistFor(data') EXCEPT !.calls = hist.calls,
                                                   !.autoAt = hist.autoAt,
                                                   !.load = outcome ]
                      ELSE [ hist EXCEPT !.load = outcome ]
    /\ Return(t)
    /\ UNCHANGED <<mcfg, lastSave, now, file, crashed>>

\* a caller of the exported CheckSave reads m.lastSave without the mutex,
\* while a Save that holds it may be writing m.lastSave
RacesWithSave(t) ==
    \E u \in Callers \ {t} : caller[u].pc = "locked" /\ caller[u].op = "Save"

\* CheckSave, called on its own: return unless a save is due, else m.Save()
CheckSave(t) ==
    /\ ~crashed
    /\ caller[t].pc = "CheckSave"
    /\ \E due \in (IF mcfg.interval > 0 /\ RacesWithSave(t)
                   THEN BOOLEAN ELSE {CheckSaveDue}) :
         caller' = [ caller EXCEPT ![t] =
            IF due
            THEN [ NoCall EXCEPT !.pc = IF mutex = 0 THEN "locked" ELSE "lock",
                                 !.op = "Save" ]
            ELSE NoCall ]
         /\ mutex' = IF due /\ mutex = 0 THEN t ELSE mutex
    /\ UNCHANGED <<mcfg, data, lastSave, now, file, crashed, hist>>

\* a second of wall time passes
Tick ==
    /\ ~crashed
    /\ now < MaxTime
    /\ now' = now + 1
    /\ UNCHANGED <<mcfg, data, mutex, lastSave, file, caller, crashed, hist>>

\* ------------------------------------------------------------ rate limiter
\* The clock ticks IntervalTicks times per refill interval (l.interval).
IntervalTicks == 2
MaxCapacity == 2
MaxWaits == 3
\* NewLimiter: requestsPerMinute when the configured one is <= 0
DefaultRPM == 60
\* the clock stops one tick after the first refill interval
LastTick == IntervalTicks + 1

\* min
Min(a, b) == IF a < b THEN a ELSE b

\* NewLimiter(config): a full bucket, anchored now
NewLimiter(cfg) ==
    LET requestsPerMinute == IF cfg.RequestsPerMinute <= 0 THEN DefaultRPM
                             ELSE cfg.RequestsPerMinute
    IN [ enabled           |-> cfg.Enabled,
         requestsPerMinute |-> requestsPerMinute,
         interval          |-> IntervalTicks,
         tokens            |-> requestsPerMinute,
         lastRefill        |-> 0,
         mutex             |-> 0 ]

\* A goroutine outside Wait.  found and anchor are history: when the call
\* in progress found the bucket empty, and l.lastRefill at that time.
NotWaiting == [ pc |-> "idle", wake |-> 0, found |-> 0, anchor |-> 0 ]

\* History: calls counts the Wait calls made, returned those that returned,
\* per goroutine; slept tells whether some call has slept, and for the last
\* such call that returned: found and anchor (see NotWaiting) and at, the
\* time it returned.
NoWaits ==
    [ calls |-> 0, returned |-> [ t \in Workers |-> 0 ],
      slept |-> FALSE, found |-> 0, anchor |-> 0, at |-> 0 ]

InitLimiter(cfg) ==
    /\ limiter = NewLimiter(cfg)
    /\ waiter = [ t \in Workers |-> NotWaiting ]
    /\ clock = 0
    /\ lhist = NoWaits

\* Wait: tokensToAdd := int(elapsed / l.interval)
TokensToAdd == (clock - limiter.lastRefill) \div limiter.interval

\* variant: a refill without the cap
RefilledUncapped(l, tokensToAdd) ==
    IF tokensToAdd > 0
    THEN [ l EXCEPT !.tokens = l.tokens + tokensToAdd,
                    !.lastRefill = l.lastRefill + tokensToAdd * l.interval ]
    ELSE l

\* Wait: the refill
Refilled(l, tokensToAdd) ==
    IF tokensToAdd > 0
    THEN [ l EXCEPT !.tokens = Min(l.requestsPerMinute, l.tokens + tokensToAdd),
                    !.lastRefill = l.lastRefill + tokensToAdd * l.interval ]
    ELSE l

\* variant: a wait of one whole interval, whatever time has elapsed
WaitTimeWhole(l) == l.interval

\* Wait: waitTime := l.interval - time.Since(l.lastRefill)
WaitTime(l) == l.interval - (clock - l.lastRefill)

\* history: the call of t returns
WaitReturned(t) ==
    [ lhist EXCEPT !.returned[t] = @ + 1,
                   !.slept = @ \/ waiter[t].wake > 0,
                   !.found = IF waiter[t].wake > 0 THEN waiter[t].found ELSE @,
                   !.anchor = IF waiter[t].wake > 0 THEN waiter[t].anchor ELSE @,
                   !.at = IF waiter[t].wake > 0 THEN clock ELSE @ ]

\* Wait is called: `if !l.enabled { return }`, else on to l.mutex.Lock()
WaitCall(t) ==
    /\ waiter[t].pc = "idle"
    /\ lhist.calls < MaxWaits
    /\ IF limiter.enabled
       THEN /\ waiter' = [ waiter EXCEPT ![t].pc = "lock" ]
            /\ lhist' = [ lhist EXCEPT !.calls = @ + 1 ]
       ELSE /\ lhist' = [ lhist EXCEPT !.calls = @ + 1, !.returned[t] = @ + 1 ]
            /\ UNCHANGED waiter
    /\ UNCHANGED <<limiter, clock>>

\* Wait, from l.mutex.Lock() on: refill; with a token in the bucket go on to
\* consume it; with none, unlock and sleep for waitTime when that is
\* positive, else take the new token at once
WaitLocked(t) ==
    /\ waiter[t].pc = "lock"
    /\ limiter.mutex = 0
    /\ LET l == Refilled(limiter, TokensToAdd) IN
       IF l.tokens > 0
       THEN /\ limiter' = [ l EXCEPT !.mutex = t ]
            /\ waiter' = [ waiter EXCEPT ![t].pc = "consume" ]
       ELSE IF WaitTime(l) > 0
       THEN /\ limiter' = l
            /\ waiter' = [ waiter EXCEPT ![t] =
                  [ pc |-> "sleep", wake |-> clock + WaitTime(l),
                    found |-> clock, anchor |-> l.lastRefill ] ]
       ELSE /\ limiter' = [ l EXCEPT !.tokens = 1, !.lastRefill = clock, !.mutex = t ]
            /\ waiter' = [ waiter EXCEPT ![t].pc = "consume" ]
    /\ UNCHANGED <<clock, lhist>>

\* Wait: time.Sleep(waitTime) is over, l.mutex.Lock() again, then
\* l.tokens = 1 and l.lastRefill = time.Now()
WaitWoken(t) ==
    /\ waiter[t].pc = "sleep"
    /\ clock >= waiter[t].wake
    /\ limiter.mutex = 0
    /\ limiter' = [ limiter EXCEPT !.tokens = 1, !.lastRefill = clock, !.mutex = t ]
    /\ waiter' = [ waiter EXCEPT ![t].pc = "consume" ]
    /\ UNCHANGED <<clock, lhist>>

\* Wait: l.tokens--, the deferred Unlock, return
WaitConsume(t) ==
    /\ waiter[t].pc = "consume"
    /\ limiter' = [ limiter EXCEPT !.tokens = @ - 1, !.mutex = 0 ]
    /\ waiter' = [ waiter EXCEPT ![t] = NotWaiting ]
    /\ lhist' = WaitReturned(t)
    /\ UNCHANGED clock

\* a tick of wall time passes
ClockTick ==
    /\ clock < LastTick
    /\ clock' = clock + 1
    /\ UNCHANGED <<limiter, waiter, lhist>>

\* ------------------------------------------------------------- proxy pool
\* crawler.ProxyPool. p.proxies is a slice of pointers: heap holds every
\* ProxyInfo object handed to the pool so far (an object's address is its
\* position in heap) and pool.proxies holds addresses. Username and Password
\* travel with Protocol and are left out; LastUsed is 0 (the zero time) or 1
\* (the time of some use). Writers hold p.mutex for one step only, so the
\* RWMutex is the number of its read holders.
MaxPoolCalls == 3

\* the values of maxFailures a pool is made with
FailureLimits == { 1, 2 }

\* two proxies of one host
Identities == { <<"ip1", "80">>, <<"ip1", "81">> }
\* "" is a scheme url.Parse refuses ("missing protocol scheme")
Protocols == { "http", "" }
ProbeResults == { "ok", "error", "status" }

ProxyInfo(id, protocol, isValid) ==
    [ IP |-> id[1], Port |-> id[2], Protocol |-> protocol,
      LastUsed |-> 0, FailCount |-> 0, IsValid |-> isValid ]

\* the records a caller may hand to AddProxy
ProxyArgs == { ProxyInfo(id, protocol, isValid) :
                 id \in Identities, protocol \in Protocols, isValid \in BOOLEAN }

ProxyString(p) == [ scheme |-> p.Protocol, host |-> p.IP, port |-> p.Port ]

UrlParseFails(u) == u.scheme = ""

Usable(p, maxFailures) == p.IsValid /\ p.FailCount < maxFailures

\* the positions of p.proxies that a loop comparing IP alone would stop at
MatchesIP(h, proxies, ip, port) ==
    { i \in 1..Len(proxies) : h[proxies[i]].IP = ip }

\* the positions of p.proxies whose record has the identity (ip, port)
Matches(h, proxies, ip, port) ==
    { i \in 1..Len(proxies) : h[proxies[i]].IP = ip /\ h[proxies[i]].Port = port }

\* the position at which the range loops of AddProxy and RemoveProxy stop; 0: none
FirstMatch(h, proxies, ip, port) ==
    LET M == Matches(h, proxies, ip, port) IN
    IF M = {} THEN 0 ELSE CHOOSE i \in M : \A j \in M : i <= j

\* append(p.proxies[:i], p.proxies[i+1:]...)
WithoutAt(proxies, i) ==
    [ j \in 1..(Len(proxies) - 1) |-> IF j < i THEN proxies[j] ELSE proxies[j + 1] ]

\* json.MarshalIndent(p.proxies): the records behind the pointers, in order
MarshalIndent(h, proxies) == [ i \in 1..Len(proxies) |-> h[proxies[i]] ]

\* the goroutines started by "go p.SaveProxies()" that have not returned
Pending == persists.spawned + BagCardinality(persists.writing)

\* NewProxyPool has returned; locked: LoadProxies holds p.mutex.Lock()
PoolBuilt == [ pc |-> "returned", file |-> "json", locked |-> FALSE ]

\* the pool after NewProxyPool returned, LoadProxies having read loaded
InitPool(loaded, maxFailures) ==
    /\ loader = PoolBuilt
    /\ heap = loaded
    /\ pool = [ proxies |-> [ i \in 1..Len(loaded) |-> i ],
                maxFailures |-> maxFailures, readers |-> 0 ]
    /\ proxyFile = loaded
    /\ getter = [ t \in Callers |-> [ pc |-> "idle", sel |-> 0 ] ]
    /\ sweep = [ pc |-> "idle", copy |-> << >>, todo |-> {}, buf |-> << >>, count |-> 0 ]
    /\ persists = [ spawned |-> 0, writing |-> EmptyBag ]
    /\ poolCalls = 0

AddProxy(proxy) ==
    /\ poolCalls < MaxPoolCalls
    /\ poolCalls' = poolCalls + 1
    /\ pool.readers = 0
    /\ LET i == FirstMatch(heap, pool.proxies, proxy.IP, proxy.Port) IN
       IF i # 0
       THEN /\ heap' = [ heap EXCEPT ![pool.proxies[i]].Protocol = proxy.Protocol,
                                     ![pool.proxies[i]].IsValid = proxy.IsValid ]
            /\ UNCHANGED <<pool, persists>>
       ELSE /\ heap' = Append(heap, proxy)
            /\ pool' = [ pool EXCEPT !.proxies = Append(@, Len(heap) + 1) ]
            /\ persists' = [ persists EXCEPT !.spawned = @ + 1 ]
    /\ UNCHANGED <<proxyFile, getter, sweep>>

RemoveProxy(ip, port) ==
    /\ poolCalls < MaxPoolCalls
    /\ poolCalls' = poolCalls + 1
    /\ pool.readers = 0
    /\ LET i == FirstMatch(heap, pool.proxies, ip, port) IN
       pool' = IF i # 0 THEN [ pool EXCEPT !.proxies = WithoutAt(@, i) ] ELSE pool
    /\ persists' = [ persists EXCEPT !.spawned = @ + 1 ]
    /\ UNCHANGED <<heap, proxyFile, getter, sweep>>

\* GetProxy down to the write of LastUsed: RLock, the filter, the random pick
GetProxySelect(t) ==
    /\ poolCalls < MaxPoolCalls
    /\ poolCalls' = poolCalls + 1
    /\ getter[t].pc = "idle"
    /\ LET valid == { i \in 1..Len(pool.proxies) :
                        Usable(heap[pool.proxies[i]], pool.maxFailures) } IN
       IF valid = {}
       THEN /\ getter' = [ getter EXCEPT ![t] = [ pc |-> "selected", sel |-> 0 ] ]
            /\ heap' = heap
       ELSE \E i \in valid :
            /\ getter' = [ getter EXCEPT ![t] = [ pc |-> "selected", sel |-> pool.proxies[i] ] ]
            /\ heap' = [ heap EXCEPT ![pool.proxies[i]].LastUsed = 1 ]
    /\ pool' = [ pool EXCEPT !.readers = @ + 1 ]
    /\ UNCHANGED <<proxyFile, sweep, persists>>

\* GetProxy's return: RUnlock; the caller holds getter[t].sel (0: nil)
GetProxyReturn(t) ==
    /\ getter[t].pc = "selected"
    /\ getter' = [ getter EXCEPT ![t] = [ pc |-> "idle", sel |-> 0 ] ]
    /\ pool' = [ pool EXCEPT !.readers = @ - 1 ]
    /\ UNCHANGED <<heap, proxyFile, sweep, persists, poolCalls>>

\* ValidateAllProxies down to the start of the probes: the copy under Lock
ValidateAllProxies ==
    /\ poolCalls < MaxPoolCalls
    /\ poolCalls' = poolCalls + 1
    /\ sweep.pc = "idle"
    /\ pool.readers = 0
    /\ sweep' = [ sweep EXCEPT !.pc = "probing", !.copy = pool.proxies,
                               !.todo = 1..Len(pool.proxies), !.count = @ + 1 ]
    /\ UNCHANGED <<heap, pool, proxyFile, getter, persists>>

\* what ValidateProxy may find: the address does not parse, or the probe
\* answers 200 ("ok"), fails ("error") or answers another status ("status")
ProbeOutcomes(p) == IF UrlParseFails(ProxyString(p)) THEN { "parse" } ELSE ProbeResults

\* the record ValidateProxy leaves
Validated(p, outcome) ==
    IF outcome = "parse" THEN p
    ELSE IF outcome = "ok" THEN [ p EXCEPT !.FailCount = 0, !.IsValid = TRUE ]
    ELSE [ p EXCEPT !.FailCount = @ + 1, !.IsValid = FALSE ]

\* one goroutine of the sweep: ValidateProxy(proxy), wg.Done(); no lock is taken
ValidateProxy(i, outcome) ==
    /\ sweep.pc = "probing"
    /\ i \in sweep.todo
    /\ outcome \in ProbeOutcomes(heap[sweep.copy[i]])
    /\ heap' = [ heap EXCEPT ![sweep.copy[i]] = Validated(@, outcome) ]
    /\ sweep' = [ sweep EXCEPT !.todo = @ \ {i} ]
    /\ UNCHANGED <<pool, proxyFile, getter, persists, poolCalls>>

\* variant: a sweep that does not wait for its probes before SaveProxies
SweepMarshalEarly ==
    /\ sweep.pc = "probing"
    /\ sweep' = [ sweep EXCEPT !.pc = "WriteFile", !.copy = << >>, !.todo = {},
                               !.buf = MarshalIndent(heap, pool.proxies) ]
    /\ pool' = [ pool EXCEPT !.readers = @ + 1 ]
    /\ UNCHANGED <<heap, proxyFile, getter, persists, poolCalls>>

\* the sweep after wg.Wait(): SaveProxies down to WriteFile
SweepMarshal ==
    /\ sweep.pc = "probing"
    /\ sweep.todo = {}
    /\ sweep' = [ sweep EXCEPT !.pc = "WriteFile", !.copy = << >>,
                               !.buf = MarshalIndent(heap, pool.proxies) ]
    /\ pool' = [ pool EXCEPT !.readers = @ + 1 ]
    /\ UNCHANGED <<heap, proxyFile, getter, persists, poolCalls>>

SweepWrite ==
    /\ sweep.pc = "WriteFile"
    /\ proxyFile' = sweep.buf
    /\ sweep' = [ sweep EXCEPT !.pc = "idle", !.buf = << >> ]
    /\ pool' = [ pool EXCEPT !.readers = @ - 1 ]
    /\ UNCHANGED <<heap, getter, persists, poolCalls>>

\* a call of SaveProxies that has not returned, "go p.SaveProxies()" or the
\* one LoadProxies makes: RLock, which waits while p.mutex is held by Lock,
\* and MarshalIndent
SaveProxiesMarshal ==
    /\ persists.spawned > 0
    /\ ~loader.locked
    /\ persists' = [ spawned |-> persists.spawned - 1,
                     writing |-> persists.writing
                                 (+) SetToBag({ MarshalIndent(heap, pool.proxies) }) ]
    /\ pool' = [ pool EXCEPT !.readers = @ + 1 ]
    /\ UNCHANGED <<heap, proxyFile, getter, sweep, poolCalls>>

\* the same goroutine: WriteFile and RUnlock
SaveProxiesWrite(buf) ==
    /\ BagIn(buf, persists.writing)
    /\ proxyFile' = buf
    /\ persists' = [ persists EXCEPT !.writing = @ (-) SetToBag({ buf }) ]
    /\ pool' = [ pool EXCEPT !.readers = @ - 1 ]
    /\ UNCHANGED <<heap, getter, sweep, poolCalls>>

\* the files NewProxyPool may find at p.proxyFile: none, a list, bytes that
\* do not parse
ProxyFiles == { "absent", "json", "garbage" }

\* &ProxyPool{proxies: make([]*ProxyInfo, 0), ...}, before pool.LoadProxies()
InNewProxyPool(found, onDisk, maxFailures) ==
    /\ loader = [ pc |-> "NewProxyPool", file |-> found, locked |-> FALSE ]
    /\ heap = << >>
    /\ pool = [ proxies |-> << >>, maxFailures |-> maxFailures, readers |-> 0 ]
    /\ proxyFile = onDisk
    /\ getter = [ t \in Callers |-> [ pc |-> "idle", sel |-> 0 ] ]
    /\ sweep = [ pc |-> "idle", copy |-> << >>, todo |-> {}, buf |-> << >>, count |-> 0 ]
    /\ persists = [ spawned |-> 0, writing |-> EmptyBag ]
    /\ poolCalls = 0

\* LoadProxies, called by NewProxyPool: p.mutex.Lock(), then with no file
\* p.proxies = make(...) and the call p.SaveProxies(); with a file that
\* cannot be read or parsed an error; else p.proxies is the decoded list
LoadProxies ==
    /\ loader.pc = "NewProxyPool"
    /\ pool.readers = 0
    /\ IF loader.file = "absent"
       THEN /\ loader' = [ loader EXCEPT !.pc = "SaveProxies", !.locked = TRUE ]
            /\ pool' = [ pool EXCEPT !.proxies = << >> ]
            /\ persists' = [ persists EXCEPT !.spawned = @ + 1 ]
            /\ UNCHANGED heap
       ELSE IF loader.file = "json"
       THEN /\ loader' = [ loader EXCEPT !.pc = "Unlock", !.locked = TRUE ]
            /\ heap' = proxyFile
            /\ pool' = [ pool EXCEPT !.proxies = [ i \in 1..Len(proxyFile) |-> i ] ]
            /\ UNCHANGED persists
       ELSE /\ loader' = [ loader EXCEPT !.pc = "Unlock", !.locked = TRUE ]
            /\ UNCHANGED <<heap, pool, persists>>
    /\ UNCHANGED <<proxyFile, getter, sweep, poolCalls>>

\* LoadProxies returns, its SaveProxies call having returned if it made
\* one: the deferred Unlock; NewProxyPool drops the result, starts
\* validateProxiesRoutine and returns the pool
NewProxyPoolReturns ==
    /\ \/ loader.pc = "Unlock"
       \/ loader.pc = "SaveProxies" /\ Pending = 0
    /\ loader' = [ loader EXCEPT !.pc = "returned", !.locked = FALSE ]
    /\ UNCHANGED proxyVars

\* ------------------------------------------------- utils/proxy, Manager
\* proxy.Manager, the rotating list of proxy URLs. Go's currentIndex counts
\* from 0: m.proxyList[m.currentIndex] is proxyList[currentIndex + 1] here.
\* The callers make MaxRotations calls in all over MaxSeconds seconds. The
\* body of a method under m.mutex is one step.
MaxRotations == 4
MaxSeconds == 3

ProxyLists == { << >>, << "x1" >>, << "x1", "x2" >>, << "x1", "x2", "x3" >> }
RotationIntervals == { 0, 1, 2 }

\* a Config without proxies
NoProxies == [ Enabled |-> FALSE, List |-> << >>, RotationInterval |-> 0 ]

NewProxyManager(cfg) ==
    [ enabled |-> cfg.Enabled, proxyList |-> cfg.List, currentIndex |-> 0,
      rotationInterval |-> cfg.RotationInterval, lastRotation |-> 0 ]

\* run: the index at the last rotation made by GetProxy (or at NewManager)
\* and the RotateProxy calls made since
NoRotation ==
    [ now |-> 0, calls |-> 0,
      caller |-> [ t \in Callers |-> [ pc |-> "idle", op |-> "", ret |-> "" ] ],
      run |-> [ from |-> 0, count |-> 0 ] ]

InitProxyManager(cfg) ==
    /\ proxyManager = NewProxyManager(cfg)
    /\ rotation = NoRotation

\* (m.currentIndex + 1) % len(m.proxyList)
NextIndex(m) == (m.currentIndex + 1) % Len(m.proxyList)

\* variant: a rotation as soon as rotationInterval seconds have passed
RotationDueAtInterval(m, t) ==
    m.rotationInterval > 0 /\ t - m.lastRotation >= m.rotationInterval

\* GetProxy: m.rotationInterval > 0 &&
\* time.Since(m.lastRotation).Seconds() > float64(m.rotationInterval)
RotationDue(m, t) ==
    m.rotationInterval > 0 /\ t - m.lastRotation > m.rotationInterval

Rotated(m, t) == [ m EXCEPT !.currentIndex = NextIndex(m), !.lastRotation = t ]

\* m.proxyList[m.currentIndex]
CurrentProxy(m) == m.proxyList[m.currentIndex + 1]

ManagerMethods == { "GetProxy", "RotateProxy" }

\* GetProxy or RotateProxy down to m.mutex.Lock(): a disabled Manager, or
\* one with an empty list, returns "" at once
ManagerCall(t, op) ==
    /\ rotation.caller[t].pc = "idle"
    /\ rotation.calls < MaxRotations
    /\ rotation' = [ rotation EXCEPT
          !.calls = @ + 1,
          !.caller[t] =
             IF ~proxyManager.enabled \/ Len(proxyManager.proxyList) = 0
             THEN [ pc |-> "idle", op |-> op, ret |-> "" ]
             ELSE [ pc |-> "lock", op |-> op, ret |-> "" ] ]
    /\ UNCHANGED proxyManager

\* GetProxy under the mutex: rotate when due, return the current proxy
ManagerGetProxy(t) ==
    /\ rotation.caller[t].pc = "lock"
    /\ rotation.caller[t].op = "GetProxy"
    /\ LET due == RotationDue(proxyManager, rotation.now)
           m == IF due THEN Rotated(proxyManager, rotation.now) ELSE proxyManager IN
       /\ proxyManager' = m
       /\ rotation' = [ rotation EXCEPT
             !.caller[t] = [ pc |-> "idle", op |-> "GetProxy", ret |-> CurrentProxy(m) ],
             !.run = IF due THEN [ from |-> m.currentIndex, count |-> 0 ] ELSE @ ]

\* RotateProxy under the mutex: rotate, return the current proxy
ManagerRotateProxy(t) ==
    /\ rotation.caller[t].pc = "lock"
    /\ rotation.caller[t].op = "RotateProxy"
    /\ LET m == Rotated(proxyManager, rotation.now) IN
       /\ proxyManager' = m
       /\ rotation' = [ rotation EXCEPT
             !.caller[t] = [ pc |-> "idle", op |-> "RotateProxy", ret |-> CurrentProxy(m) ],
             !.run.count = @ + 1 ]

\* a second of wall time passes
SecondPasses ==
    /\ rotation.now < MaxSeconds
    /\ rotation' = [ rotation EXCEPT !.now = @ + 1 ]
    /\ UNCHANGED proxyManager

\* ---------------------------------------------------------------- crawler
VideoIDs == {"v1"}
\* a VideoData: its id and the ProductID of its ProductInfo ("" when it has none)
Videos == [ VideoID : VideoIDs, ProductID : ProductIDs ]
\* the pages of at most n videos
PagesUpTo(n) == UNION { [ 1..k -> Videos ] : k \in 0..n }

\* A worker goroutine: its place in worker(), the locals of crawlUserVideos
\* (cursor, retryCount, the page in hand and its nextCursor) and of
\* crawlVideoComments (ccursor, cretry).  The h* fields are the history of
\* the seed this worker received last: the number of consecutive failed
\* fetches of the walk last run, the terminal answer ("empty" or
\* "repeated", see Answer) that a successful fetch of the posts / comments
\* walk last run returned, if any, and the call that failed last ("" when
\* none did).
Idle ==
    [ pc |-> "notstarted", pos |-> 0, cursor |-> "", retryCount |-> 0,
      videos |-> << >>, nextCursor |-> "", ccursor |-> "", cretry |-> 0,
      hFails |-> 0, hTerm |-> "", hCTerm |-> "", hErr |-> "" ]

\* NewCrawler: urlChannel has capacity config.Concurrency
Capacity == config.Concurrency

\* what the remote said with nextCursor, given the cursor submitted: no
\* more data ("empty"), the same cursor again ("repeated"), or go on ("")
Answer(nextCursor, cursor) ==
    IF nextCursor = "" THEN "empty"
    ELSE IF nextCursor = cursor THEN "repeated" ELSE ""

\* variant: a loop exit test that only knows the empty cursor
IsTerminalOnEmpty(nextCursor, cursor) == nextCursor = ""

\* the loop exit test of both walks
IsTerminal(nextCursor, cursor) == nextCursor = "" \/ nextCursor = cursor

\* variant: an abandon test that allows one failure more
GiveUpLate(retryCount) == retryCount > config.Retries + 1

\* the abandon test of both walks, after retryCount++
GiveUp(retryCount) == retryCount > config.Retries

\* the cursor a walk starts with
StartCursor(parentID) == ""

\* worker(), end of one iteration: the walk is over, the worker sleeps and
\* goes back to the range over urlChannel
BackToRange(wr) ==
    [ wr EXCEPT !.pc = "recv", !.pos = 0, !.cursor = "", !.retryCount = 0,
                !.videos = << >>, !.nextCursor = "", !.ccursor = "",
                !.cretry = 0 ]

\* crawlUserVideos, after the page's videos: stop on a terminal cursor,
\* else move the cursor and fetch again
EndOfPage(wr) ==
    IF IsTerminal(wr.nextCursor, wr.cursor)
    THEN BackToRange(wr)
    ELSE [ wr EXCEPT !.pc = "GetUserVideos", !.cursor = wr.nextCursor,
                     !.nextCursor = "", !.videos = << >>, !.ccursor = "",
                     !.cretry = 0, !.hFails = 0 ]

\* crawlUserVideos, the range over videos: save the video at the head of the
\* page and enter crawlVideoComments for it; with no video left, EndOfPage
StartVideo(wr) ==
    IF wr.videos = << >>
    THEN EndOfPage(wr)
    ELSE [ wr EXCEPT !.pc = "GetVideoComments",
                     !.ccursor = StartCursor(Head(wr.videos).VideoID),
                     !.cretry = 0, !.hFails = 0, !.hCTerm = "" ]

\* crawlUserVideos, after crawlProductInfo (or without it): sleep, next video
AfterVideo(wr) == StartVideo([ wr EXCEPT !.videos = Tail(wr.videos) ])

\* variant: a product fetch for every video
HasProductAlways(video) == TRUE

\* crawlUserVideos: video.ProductInfo != nil && video.ProductInfo.ProductID != ""
HasProduct(video) == video.ProductID # ""

\* crawlUserVideos, after crawlVideoComments returned: the product, if any
AfterComments(wr) ==
    IF HasProduct(Head(wr.videos))
    THEN [ wr EXCEPT !.pc = "GetProductInfo", !.ccursor = "", !.cretry = 0 ]
    ELSE AfterVideo([ wr EXCEPT !.ccursor = "", !.cretry = 0 ])

\* main() has called Start
InStart ==
    [ pc |-> "Start", platform |-> "douyin", cookies |-> "ck", users |-> << "u1" >>,
      args |-> << >>, err |-> "" ]

\* the state after NewCrawler(config), at the call of Start(seeds)
InitCrawler(seeds) ==
    /\ userIDs = seeds
    /\ urlChannel = << >>
    /\ closed = FALSE
    /\ wg = 0
    /\ startPc = "spawn"
    /\ spawned = 0
    /\ nextSeed = 1
    /\ worker = [ w \in Workers |-> Idle ]
    /\ received = [ p \in DOMAIN seeds |-> << >> ]
    /\ events = [ p \in DOMAIN seeds |-> << >> ]
    /\ main = InStart

\* Start, the first loop: wg.Add(1); go c.worker()
StartSpawn ==
    /\ startPc = "spawn"
    /\ spawned < config.Concurrency
    /\ wg' = wg + 1
    /\ spawned' = spawned + 1
    /\ worker' = [ worker EXCEPT ![spawned + 1].pc = "recv" ]
    /\ UNCHANGED <<config, userIDs, urlChannel, closed, startPc, nextSeed, received, remote>>

\* Start, the first loop is over
StartSpawned ==
    /\ startPc = "spawn"
    /\ spawned >= config.Concurrency
    /\ startPc' = "enqueue"
    /\ UNCHANGED <<config, userIDs, urlChannel, closed, wg, spawned, nextSeed,
                   worker, received, remote>>

\* Start, the second loop: c.urlChannel <- userID blocks while the buffer is full
StartSend ==
    /\ startPc = "enqueue"
    /\ nextSeed <= Len(userIDs)
    /\ Len(urlChannel) < Capacity
    /\ urlChannel' = Append(urlChannel, nextSeed)
    /\ nextSeed' = nextSeed + 1
    /\ UNCHANGED <<config, userIDs, closed, wg, startPc, spawned, worker, received, remote>>

\* Start: close(c.urlChannel), then on to wg.Wait()
StartClose ==
    /\ startPc = "enqueue"
    /\ nextSeed > Len(userIDs)
    /\ closed' = TRUE
    /\ startPc' = "wait"
    /\ UNCHANGED <<config, userIDs, urlChannel, wg, spawned, nextSeed, worker, received, remote>>

\* variant: Start without its wg.Wait()
StartReturnNoWait ==
    /\ startPc = "wait"
    /\ startPc' = "done"
    /\ UNCHANGED <<config, userIDs, urlChannel, closed, wg, spawned, nextSeed,
                   worker, received, remote>>

\* Start: wg.Wait() returns when the counter is zero
StartReturn ==
    /\ startPc = "wait"
    /\ wg = 0
    /\ startPc' = "done"
    /\ UNCHANGED <<config, userIDs, urlChannel, closed, wg, spawned, nextSeed,
                   worker, received, remote>>

\* variant: a worker that takes the next seed while its current one is
\* still being crawled
WorkerRecvAnytime(w) ==
    /\ worker[w].pc \notin { "notstarted", "exited" }
    /\ urlChannel # << >>
    /\ urlChannel' = Tail(urlChannel)
    /\ worker' = [ worker EXCEPT ![w] = [ Idle EXCEPT !.pc = "GetUserInfo",
                                                      !.pos = Head(urlChannel) ] ]
    /\ received' = [ received EXCEPT ![Head(urlChannel)] = Append(@, w) ]
    /\ UNCHANGED <<config, userIDs, closed, wg, startPc, spawned, nextSeed, remote>>

\* worker: for userID := range c.urlChannel, a value is there
WorkerRecv(w) ==
    /\ worker[w].pc = "recv"
    /\ urlChannel # << >>
    /\ urlChannel' = Tail(urlChannel)
    /\ worker' = [ worker EXCEPT ![w] = [ Idle EXCEPT !.pc = "GetUserInfo",
                                                      !.pos = Head(urlChannel) ] ]
    /\ received' = [ received EXCEPT ![Head(urlChannel)] = Append(@, w) ]
    /\ UNCHANGED <<config, userIDs, closed, wg, startPc, spawned, nextSeed, remote>>

\* variant: a worker that leaves as soon as it finds the channel empty,
\* closed or not (a select with a default case instead of the range)
WorkerExitOnEmpty(w) ==
    /\ worker[w].pc = "recv"
    /\ urlChannel = << >>
    /\ worker' = [ worker EXCEPT ![w].pc = "exited" ]
    /\ wg' = wg - 1
    /\ UNCHANGED <<config, userIDs, urlChannel, closed, startPc, spawned, nextSeed, received, remote>>

\* worker: the range ends on a closed and drained channel; defer c.wg.Done()
WorkerExit(w) ==
    /\ worker[w].pc = "recv"
    /\ urlChannel = << >>
    /\ closed
    /\ worker' = [ worker EXCEPT ![w].pc = "exited" ]
    /\ wg' = wg - 1
    /\ UNCHANGED <<config, userIDs, urlChannel, closed, startPc, spawned, nextSeed, received, remote>>

\* variant: a failed GetUserInfo that takes the worker goroutine down
ProfileFailedStops(wr) == [ wr EXCEPT !.pc = "exited", !.hErr = "GetUserInfo" ]

\* variant: a failed GetUserInfo that is tried again
ProfileFailedRetried(wr) == [ wr EXCEPT !.hErr = "GetUserInfo" ]

\* worker, GetUserInfo failed: log, continue
ProfileFailed(wr) == BackToRange([ wr EXCEPT !.hErr = "GetUserInfo" ])

\* worker, GetUserInfo succeeded: saveUserData, crawlUserVideos starts
ProfileFetched(wr) ==
    [ wr EXCEPT !.pc = "GetUserVideos", !.cursor = StartCursor(userIDs[wr.pos]),
                !.retryCount = 0, !.hFails = 0, !.hTerm = "" ]

\* worker: c.scraper.GetUserInfo(userID); on success saveUserData and
\* crawlUserVideos starts
GetUserInfo(w) ==
    /\ worker[w].pc = "GetUserInfo"
    /\ \E ok \in BOOLEAN :
         worker' = [ worker EXCEPT ![w] =
            IF ok THEN ProfileFetched(@) ELSE ProfileFailed(@) ]
    /\ UNCHANGED <<config, userIDs, urlChannel, closed, wg, startPc, spawned,
                   nextSeed, received, remote>>

\* crawlUserVideos: GetUserVideos failed
VideosFailed(wr) ==
    IF GiveUp(wr.retryCount + 1)
    THEN BackToRange([ wr EXCEPT !.hFails = @ + 1, !.hErr = "GetUserVideos" ])
    ELSE [ wr EXCEPT !.retryCount = @ + 1, !.hFails = @ + 1, !.hErr = "GetUserVideos" ]

\* variant: a successful fetch that leaves retryCount as it is
VideosFetchedNoReset(wr, page, next) ==
    StartVideo([ wr EXCEPT !.hFails = 0, !.videos = page, !.nextCursor = next,
                           !.hTerm = Answer(next, wr.cursor) ])

\* crawlUserVideos: GetUserVideos returned a page and nextCursor
VideosFetched(wr, page, next) ==
    StartVideo([ wr EXCEPT !.retryCount = 0, !.hFails = 0, !.videos = page,
                           !.nextCursor = next,
                           !.hTerm = Answer(next, wr.cursor) ])

\* crawlUserVideos: one c.scraper.GetUserVideos(userID, cursor), with the
\* answers the remote may give (kinds: see Answer)
GetUserVideosAnswered(w, kinds) ==
    /\ worker[w].pc = "GetUserVideos"
    /\ \E page \in remote.pages, next \in remote.cursors \cup {""} :
          /\ Answer(next, worker[w].cursor) \in kinds
          /\ worker' = [ worker EXCEPT ![w] = VideosFetched(@, page, next) ]
    /\ UNCHANGED <<config, userIDs, urlChannel, closed, wg, startPc, spawned,
                   nextSeed, received, remote>>

\* crawlUserVideos: one c.scraper.GetUserVideos(userID, cursor)
GetUserVideos(w) ==
    \/ /\ worker[w].pc = "GetUserVideos"
       /\ worker' = [ worker EXCEPT ![w] = VideosFailed(@) ]
       /\ UNCHANGED <<config, userIDs, urlChannel, closed, wg, startPc, spawned,
                      nextSeed, received, remote>>
    \/ GetUserVideosAnswered(w, {"", "empty", "repeated"})

\* crawlVideoComments: GetVideoComments failed
CommentsFailed(wr) ==
    IF GiveUp(wr.cretry + 1)
    THEN AfterComments([ wr EXCEPT !.hFails = @ + 1, !.hErr = "GetVideoComments" ])
    ELSE [ wr EXCEPT !.cretry = @ + 1, !.hFails = @ + 1, !.hErr = "GetVideoComments" ]

\* crawlVideoComments: GetVideoComments returned comments and nextCursor
CommentsFetched(wr, next) ==
    IF IsTerminal(next, wr.ccursor)
    THEN AfterComments([ wr EXCEPT !.hFails = 0,
                                   !.hCTerm = Answer(next, wr.ccursor) ])
    ELSE [ wr EXCEPT !.cretry = 0, !.hFails = 0, !.ccursor = next,
                     !.hCTerm = Answer(next, wr.ccursor) ]

\* crawlVideoComments: one c.scraper.GetVideoComments(videoID, cursor),
\* with the answers the remote may give
GetVideoCommentsAnswered(w, kinds) ==
    /\ worker[w].pc = "GetVideoComments"
    /\ \E next \in remote.cursors \cup {""} :
          /\ Answer(next, worker[w].ccursor) \in kinds
          /\ worker' = [ worker EXCEPT ![w] = CommentsFetched(@, next) ]
    /\ UNCHANGED <<config, userIDs, urlChannel, closed, wg, startPc, spawned,
                   nextSeed, received, remote>>

\* crawlVideoComments: one c.scraper.GetVideoComments(videoID, cursor)
GetVideoComments(w) ==
    \/ /\ worker[w].pc = "GetVideoComments"
       /\ worker' = [ worker EXCEPT ![w] = CommentsFailed(@) ]
       /\ UNCHANGED <<config, userIDs, urlChannel, closed, wg, startPc, spawned,
                      nextSeed, received, remote>>
    \/ GetVideoCommentsAnswered(w, {"", "empty", "repeated"})

\* crawlProductInfo, GetProductInfo failed: log, return
ProductFailed(wr) == AfterVideo([ wr EXCEPT !.hErr = "GetProductInfo" ])

\* crawlProductInfo: c.scraper.GetProductInfo; saved on success, logged on
\* failure, and the range over videos goes on either way
GetProductInfo(w) ==
    /\ worker[w].pc = "GetProductInfo"
    /\ \E ok \in BOOLEAN :
         worker' = [ worker EXCEPT ![w] = IF ok THEN AfterVideo(@) ELSE ProductFailed(@) ]
    /\ UNCHANGED <<config, userIDs, urlChannel, closed, wg, startPc, spawned,
                   nextSeed, received, remote>>

\* ---------------------------------------------- crawler, with its history
\* The same worker against a remote that answers by a script
\* (remote.posts: cursor -> page and nextCursor; remote.comments: cursor ->
\* nextCursor), with the calls of the scraper and of the save* functions
\* written to events, per position of userIDs, in the order the code makes
\* them. Only the first MaxEvents events of a position are followed.
MaxEvents == 12

Event(op, id, cursor, ok) == [ op |-> op, id |-> id, cursor |-> cursor, ok |-> ok ]

\* crawlUserVideos, the head of the range over videos: saveVideoData
SavedByStartVideo(wr) ==
    IF wr.videos = << >> THEN << >>
    ELSE << Event("saveVideoData", Head(wr.videos).VideoID, "", TRUE) >>

\* crawlUserVideos, after the product of a video: the next video, if any
SavedByAfterVideo(wr) == SavedByStartVideo([ wr EXCEPT !.videos = Tail(wr.videos) ])

\* crawlUserVideos, after crawlVideoComments returned: crawlProductInfo
\* comes first when the video has a ProductID
SavedByAfterComments(wr) ==
    IF HasProduct(Head(wr.videos)) THEN << >> ELSE SavedByAfterVideo(wr)

Recorded(p, es) == [ events EXCEPT ![p] = @ \o es ]

Following(w) == Len(events[worker[w].pos]) < MaxEvents

ScriptedGetUserInfo(w) ==
    /\ worker[w].pc = "GetUserInfo"
    /\ Following(w)
    /\ \E ok \in BOOLEAN :
         LET wr == worker[w]
             id == userIDs[wr.pos] IN
         /\ worker' = [ worker EXCEPT ![w] =
               IF ok THEN ProfileFetched(@) ELSE ProfileFailed(@) ]
         /\ events' = Recorded(wr.pos,
               << Event("GetUserInfo", id, "", ok) >>
               \o (IF ok THEN << Event("saveUserData", id, "", TRUE) >> ELSE << >>))
    /\ UNCHANGED <<config, userIDs, urlChannel, closed, wg, startPc, spawned,
                   nextSeed, received, remote>>

ScriptedGetUserVideos(w) ==
    /\ worker[w].pc = "GetUserVideos"
    /\ Following(w)
    /\ LET wr == worker[w]
           id == userIDs[wr.pos]
           answer == remote.posts[wr.cursor] IN
       \/ /\ worker' = [ worker EXCEPT ![w] = VideosFailed(@) ]
          /\ events' = Recorded(wr.pos, << Event("GetUserVideos", id, wr.cursor, FALSE) >>)
       \/ /\ worker' = [ worker EXCEPT ![w] = VideosFetched(@, answer.page, answer.next) ]
          /\ events' = Recorded(wr.pos,
                << Event("GetUserVideos", id, wr.cursor, TRUE) >>
                \o SavedByStartVideo([ wr EXCEPT !.videos = answer.page ]))
    /\ UNCHANGED <<config, userIDs, urlChannel, closed, wg, startPc, spawned,
                   nextSeed, received, remote>>

ScriptedGetVideoComments(w) ==
    /\ worker[w].pc = "GetVideoComments"
    /\ Following(w)
    /\ LET wr == worker[w]
           id == Head(wr.videos).VideoID
           next == remote.comments[wr.ccursor] IN
       \/ /\ worker' = [ worker EXCEPT ![w] = CommentsFailed(@) ]
          /\ events' = Recorded(wr.pos,
                << Event("GetVideoComments", id, wr.ccursor, FALSE) >>
                \o (IF GiveUp(wr.cretry + 1) THEN SavedByAfterComments(wr) ELSE << >>))
       \/ /\ worker' = [ worker EXCEPT ![w] = CommentsFetched(@, next) ]
          /\ events' = Recorded(wr.pos,
                << Event("GetVideoComments", id, wr.ccursor, TRUE) >>
                \o (IF IsTerminal(next, wr.ccursor) THEN SavedByAfterComments(wr)
                    ELSE << >>))
    /\ UNCHANGED <<config, userIDs, urlChannel, closed, wg, startPc, spawned,
                   nextSeed, received, remote>>

ScriptedGetProductInfo(w) ==
    /\ worker[w].pc = "GetProductInfo"
    /\ Following(w)
    /\ \E ok \in BOOLEAN :
         LET wr == worker[w]
             id == Head(wr.videos).ProductID IN
         /\ worker' = [ worker EXCEPT ![w] =
               IF ok THEN AfterVideo(@) ELSE ProductFailed(@) ]
         /\ events' = Recorded(wr.pos,
               << Event("GetProductInfo", id, "", ok) >>
               \o (IF ok THEN << Event("saveProductInfo", id, "", TRUE) >> ELSE << >>)
               \o SavedByAfterVideo(wr))
    /\ UNCHANGED <<config, userIDs, urlChannel, closed, wg, startPc, spawned,
                   nextSeed, received, remote>>

\* -------------------------------------------------------------------- main
\* main(): the flags, Initialize, the list of user IDs, Start. A string that
\* matters for its commas (-users, a positional argument) is the sequence of
\* its pieces: << "id1", ",", "id2" >> is "id1,id2" and << >> is "".
Platforms == { "douyin", "kuaishou", "weibo" }
CookieFlags == { "", "ck" }
UserFlags == { << >>, << "id1" >>, << "id1", ",", "id2" >> }
ArgLists == { << >>, << << "id3" >> >>, << << >>, << "id3" >>, << "id4" >> >> }

\* main: the loop over flag.Args() that keeps the non-empty arguments
RECURSIVE NonEmptyArgs(_)
NonEmptyArgs(args) ==
    IF args = << >> THEN << >>
    ELSE (IF Head(args) # << >> THEN << Head(args) >> ELSE << >>) \o NonEmptyArgs(Tail(args))

\* main: userIDList, as it is passed to Start
UserIDList(args, users) ==
    LET list == NonEmptyArgs(args) IN
    IF Len(list) = 0 /\ users # << >> THEN << users >> ELSE list

\* what Crawler.Initialize may return for a platform ("": nil)
InitializeErrors(platform) ==
    IF platform \notin { "douyin", "kuaishou" } THEN { "platform" }
    ELSE { "scraper", "mkdir", "" }

\* variant: a main that logs the error of Initialize and goes on
InitializedAnyway(m, err) == [ m EXCEPT !.pc = "args", !.err = err ]

\* main after crawler.Initialize(): log.Fatalf on an error
Initialized(m, err) ==
    IF err # "" THEN [ m EXCEPT !.pc = "fatal", !.err = err ]
    ELSE [ m EXCEPT !.pc = "args" ]

\* main: flag.Parse and the two required flags
MainFlags ==
    /\ main.pc = "flags"
    /\ main' = IF main.cookies = "" \/ main.users = << >>
               THEN [ main EXCEPT !.pc = "fatal", !.err = "flags" ]
               ELSE [ main EXCEPT !.pc = "Initialize" ]
    /\ UNCHANGED <<crawlerVars, events>>

\* main: NewCrawler(config), crawler.Initialize()
MainInitialize ==
    /\ main.pc = "Initialize"
    /\ \E err \in InitializeErrors(main.platform) : main' = Initialized(main, err)
    /\ UNCHANGED <<crawlerVars, events>>

\* main: the list of user IDs, and the call of Start
MainStart ==
    /\ main.pc = "args"
    /\ main' = [ main EXCEPT !.pc = "Start" ]
    /\ userIDs' = UserIDList(main.args, main.users)
    /\ received' = [ p \in DOMAIN userIDs' |-> << >> ]
    /\ events' = [ p \in DOMAIN userIDs' |-> << >> ]
    /\ startPc' = "spawn"
    /\ UNCHANGED <<config, urlChannel, closed, wg, spawned, nextSeed, worker, remote>>

\* ------------------------------------------------------- specifications
\* The pool: up to Cardinality(Workers) workers, NumSeeds seeds (the first
\* NumSeeds of u1, u2, u1, ...), a remote whose every page is the last one
\* and has at most one video.
PoolSeeds == [ p \in 1..NumSeeds |-> IF p % 2 = 1 THEN "u1" ELSE "u2" ]

Init ==
    /\ config \in [ Concurrency : 1..Cardinality(Workers), Retries : 0..MaxRetries ]
    /\ remote = [ cursors |-> {}, pages |-> PagesUpTo(1) ]
    /\ InitCrawler(PoolSeeds)
    /\ InitCheckpoint([ enabled |-> TRUE, interval |-> 0 ], NewData)
    /\ file = Absent
    /\ InitLimiter([ Enabled |-> TRUE, RequestsPerMinute |-> 1 ])
    /\ InitProxyManager(NoProxies)
    /\ InitPool(<< >>, 1)

Next ==
    \/ StartSpawn /\ UNCHANGED OutsideCrawler
    \/ StartSpawned /\ UNCHANGED OutsideCrawler
    \/ StartSend /\ UNCHANGED OutsideCrawler
    \/ StartClose /\ UNCHANGED OutsideCrawler
    \/ StartReturn /\ UNCHANGED OutsideCrawler
    \/ \E w \in Workers : WorkerRecv(w) /\ UNCHANGED OutsideCrawler
    \/ \E w \in Workers : WorkerExit(w) /\ UNCHANGED OutsideCrawler
    \/ \E w \in Workers : GetUserInfo(w) /\ UNCHANGED OutsideCrawler
    \/ \E w \in Workers : GetUserVideos(w) /\ UNCHANGED OutsideCrawler
    \/ \E w \in Workers : GetVideoComments(w) /\ UNCHANGED OutsideCrawler
    \/ \E w \in Workers : GetProductInfo(w) /\ UNCHANGED OutsideCrawler

Spec == Init /\ [][Next]_vars

\* Scheduling.  The Go scheduler runs every goroutine that can take a step:
\* Start and each worker are weakly fair.  The remote is assumed to end
\* every walk: a fetch that can be answered with a terminal cursor (empty,
\* or the one submitted) is so answered sooner or later.
StartStep ==
    /\ StartSpawn \/ StartSpawned \/ StartSend \/ StartClose \/ StartReturn
    /\ UNCHANGED OutsideCrawler

WorkerStep(w) ==
    /\ WorkerRecv(w) \/ WorkerExit(w) \/ GetUserInfo(w) \/ GetUserVideos(w)
         \/ GetVideoComments(w) \/ GetProductInfo(w)
    /\ UNCHANGED OutsideCrawler

LastVideosPage(w) ==
    GetUserVideosAnswered(w, {"empty", "repeated"}) /\ UNCHANGED OutsideCrawler

LastCommentsPage(w) ==
    GetVideoCommentsAnswered(w, {"empty", "repeated"}) /\ UNCHANGED OutsideCrawler

Fairness ==
    /\ WF_vars(StartStep)
    /\ \A w \in Workers : WF_vars(WorkerStep(w))
    /\ \A w \in Workers : SF_vars(LastVideosPage(w))
    /\ \A w \in Workers : SF_vars(LastCommentsPage(w))

\* The pool under fair scheduling.
FairSpec == Init /\ [][Next]_vars /\ Fairness

\* One walk: one worker, one seed, a remote with two cursors and pages of
\* at most MaxVideos videos; the checkpoint is fresh or holds the resume
\* cursors that an earlier, interrupted run stored.
Resumable ==
    [ NewData EXCEPT !.UserCursors = MapPut(EmptyMap, "u1", "c1"),
                     !.CommentCursors = MapPut(EmptyMap, "v1", "c2") ]

WalkInit ==
    /\ config \in [ Concurrency : {1}, Retries : 0..MaxRetries ]
    /\ remote = [ cursors |-> Cursors, pages |-> PagesUpTo(MaxVideos) ]
    /\ \E u \in UserIDs : InitCrawler(<<u>>)
    /\ \E d \in { NewData, Resumable } :
          InitCheckpoint([ enabled |-> TRUE, interval |-> 0 ], d)
    /\ file = Absent
    /\ InitLimiter([ Enabled |-> TRUE, RequestsPerMinute |-> 1 ])
    /\ InitProxyManager(NoProxies)
    /\ InitPool(<< >>, 1)

WalkSpec == WalkInit /\ [][Next]_vars

FairWalkSpec == WalkInit /\ [][Next]_vars /\ Fairness

\* The checkpoint store: Cardinality(Callers) goroutines make MaxCalls
\* calls in all, over MaxTime seconds.
PartialSnapshot == [ platform |-> "kuaishou" ]

CkInit ==
    /\ \E cfg \in [ enabled : BOOLEAN, interval : Intervals ] : InitCheckpoint(cfg, NewData)
    /\ file \in { Absent, Snapshot(PartialSnapshot), Garbage }
    /\ config = [ Concurrency |-> 1, Retries |-> 0 ]
    /\ remote = [ cursors |-> {}, pages |-> {} ]
    /\ InitCrawler(<< >>)
    /\ InitLimiter([ Enabled |-> TRUE, RequestsPerMinute |-> 1 ])
    /\ InitProxyManager(NoProxies)
    /\ InitPool(<< >>, 1)

CkNext ==
    \/ Tick /\ UNCHANGED OutsideCheckpoint
    \/ \E t \in Callers : Enter(t) /\ UNCHANGED OutsideCheckpoint
    \/ \E t \in Callers : Lock(t) /\ UNCHANGED OutsideCheckpoint
    \/ \E t \in Callers : MarkUserProcessed(t) /\ UNCHANGED OutsideCheckpoint
    \/ \E t \in Callers : MarkVideoProcessed(t) /\ UNCHANGED OutsideCheckpoint
    \/ \E t \in Callers : SetUserCursor(t) /\ UNCHANGED OutsideCheckpoint
    \/ \E t \in Callers : SetCommentCursor(t) /\ UNCHANGED OutsideCheckpoint
    \/ \E t \in Callers : IncrementCommentCount(t) /\ UNCHANGED OutsideCheckpoint
    \/ \E t \in Callers : IncrementProductCount(t) /\ UNCHANGED OutsideCheckpoint
    \/ \E t \in Callers : Save(t) /\ UNCHANGED OutsideCheckpoint
    \/ \E t \in Callers : Load(t) /\ UNCHANGED OutsideCheckpoint
    \/ \E t \in Callers : CheckSave(t) /\ UNCHANGED OutsideCheckpoint

CkSpec == CkInit /\ [][CkNext]_vars

\* The rate limiter: the goroutines make MaxWaits calls of Wait in all, on a
\* limiter that is disabled or has a capacity of 1..MaxCapacity or the
\* default one.
LimInit ==
    /\ \E cfg \in [ Enabled : BOOLEAN, RequestsPerMinute : 0..MaxCapacity ] :
          InitLimiter(cfg)
    /\ InitProxyManager(NoProxies)
    /\ InitPool(<< >>, 1)
    /\ InitCheckpoint([ enabled |-> FALSE, interval |-> 0 ], NewData)
    /\ file = Absent
    /\ config = [ Concurrency |-> 1, Retries |-> 0 ]
    /\ remote = [ cursors |-> {}, pages |-> {} ]
    /\ InitCrawler(<< >>)

LimNext ==
    \/ ClockTick /\ UNCHANGED OutsideLimiter
    \/ \E t \in Workers : WaitCall(t) /\ UNCHANGED OutsideLimiter
    \/ \E t \in Workers : WaitLocked(t) /\ UNCHANGED OutsideLimiter
    \/ \E t \in Workers : WaitWoken(t) /\ UNCHANGED OutsideLimiter
    \/ \E t \in Workers : WaitConsume(t) /\ UNCHANGED OutsideLimiter

LimSpec == LimInit /\ [][LimNext]_vars
\* The proxy pool, loaded from a file that holds one usable record: the
\* callers make MaxPoolCalls calls in all of AddProxy, RemoveProxy, GetProxy
\* and ValidateAllProxies.
LoadedProxies == << ProxyInfo(<<"ip1", "80">>, "http", TRUE) >>

PoolInit ==
    /\ \E maxFailures \in FailureLimits : InitPool(LoadedProxies, maxFailures)
    /\ InitLimiter([ Enabled |-> TRUE, RequestsPerMinute |-> 1 ])
    /\ InitProxyManager(NoProxies)
    /\ InitCheckpoint([ enabled |-> FALSE, interval |-> 0 ], NewData)
    /\ file = Absent
    /\ config = [ Concurrency |-> 1, Retries |-> 0 ]
    /\ remote = [ cursors |-> {}, pages |-> {} ]
    /\ InitCrawler(<< >>)

PoolNext ==
    \/ \E proxy \in ProxyArgs : AddProxy(proxy) /\ UNCHANGED OutsidePool
    \/ \E id \in Identities : RemoveProxy(id[1], id[2]) /\ UNCHANGED OutsidePool
    \/ \E t \in Callers : GetProxySelect(t) /\ UNCHANGED OutsidePool
    \/ \E t \in Callers : GetProxyReturn(t) /\ UNCHANGED OutsidePool
    \/ ValidateAllProxies /\ UNCHANGED OutsidePool
    \/ \E i \in sweep.todo, outcome \in ProbeResults \cup { "parse" } :
          ValidateProxy(i, outcome) /\ UNCHANGED OutsidePool
    \/ SweepMarshal /\ UNCHANGED OutsidePool
    \/ SweepWrite /\ UNCHANGED OutsidePool
    \/ SaveProxiesMarshal /\ UNCHANGED OutsidePool
    \/ \E buf \in BagToSet(persists.writing) :
          SaveProxiesWrite(buf) /\ UNCHANGED OutsidePool

PoolSpec == PoolInit /\ [][PoolNext]_vars

\* NewProxyPool on each kind of file, then the calls on the pool it returned.
NewPoolInit ==
    /\ \E found \in ProxyFiles, maxFailures \in FailureLimits :
          InNewProxyPool(found, IF found = "json" THEN LoadedProxies ELSE << >>,
                         maxFailures)
    /\ InitLimiter([ Enabled |-> TRUE, RequestsPerMinute |-> 1 ])
    /\ InitProxyManager(NoProxies)
    /\ InitCheckpoint([ enabled |-> FALSE, interval |-> 0 ], NewData)
    /\ file = Absent
    /\ config = [ Concurrency |-> 1, Retries |-> 0 ]
    /\ remote = [ cursors |-> {}, pages |-> {} ]
    /\ InitCrawler(<< >>)

OutsideLoader == <<crawlerVars, checkpointVars, limiterVars, mainVars, observerVars,
                   managerVars>>

NewPoolNext ==
    \/ LoadProxies /\ UNCHANGED OutsideLoader
    \/ NewProxyPoolReturns /\ UNCHANGED OutsideLoader
    \/ loader.pc = "returned" /\ PoolNext

NewPoolSpec == NewPoolInit /\ [][NewPoolNext]_vars

\* The rotating Manager, enabled or not, over each list and interval.
InitManagerOnly(cfg) ==
    /\ InitProxyManager(cfg)
    /\ InitLimiter([ Enabled |-> TRUE, RequestsPerMinute |-> 1 ])
    /\ InitCheckpoint([ enabled |-> FALSE, interval |-> 0 ], NewData)
    /\ file = Absent
    /\ config = [ Concurrency |-> 1, Retries |-> 0 ]
    /\ remote = [ cursors |-> {}, pages |-> {} ]
    /\ InitCrawler(<< >>)
    /\ InitPool(<< >>, 1)

ManagerInit ==
    \E cfg \in [ Enabled : BOOLEAN, List : ProxyLists,
                  RotationInterval : RotationIntervals ] : InitManagerOnly(cfg)

OutsideManager == <<crawlerVars, checkpointVars, limiterVars, proxyVars, loaderVars,
                    mainVars, observerVars>>

ManagerNext ==
    \/ SecondPasses /\ UNCHANGED OutsideManager
    \/ \E t \in Callers, op \in ManagerMethods : ManagerCall(t, op) /\ UNCHANGED OutsideManager
    \/ \E t \in Callers : ManagerGetProxy(t) /\ UNCHANGED OutsideManager
    \/ \E t \in Callers : ManagerRotateProxy(t) /\ UNCHANGED OutsideManager

ManagerSpec == ManagerInit /\ [][ManagerNext]_vars


\* The worker against scripted remotes, with its history. The scenario: two
\* seeds, one or two workers, posts pages without videos, the start cursor
\* answered with "c1" and "c1" with "c1". A page of two posts, the first
\* with a product, and comments of two pages. A remote that answers "c1"
\* with "c2" and "c2" with "c1".
NoPosts == << >>
AllCursors == Cursors \cup { "" }

Scenario ==
    [ cursors |-> { "c1" }, pages |-> { NoPosts },
      posts |-> [ c \in AllCursors |-> [ page |-> NoPosts, next |-> "c1" ] ],
      comments |-> [ c \in AllCursors |-> "" ] ]

TwoPosts ==
    << [ VideoID |-> "v1", ProductID |-> "p1" ], [ VideoID |-> "v2", ProductID |-> "" ] >>

PageOfTwo ==
    [ cursors |-> { "c1" }, pages |-> { TwoPosts },
      posts |-> [ c \in AllCursors |-> [ page |-> TwoPosts, next |-> "" ] ],
      comments |-> [ c \in AllCursors |-> IF c = "" THEN "c1" ELSE "" ] ]

Cycle ==
    [ cursors |-> { "c1", "c2" }, pages |-> { NoPosts },
      posts |-> [ c \in AllCursors |->
                    [ page |-> NoPosts, next |-> IF c = "c1" THEN "c2" ELSE "c1" ] ],
      comments |-> [ c \in AllCursors |-> "" ] ]

ScenarioSeeds == << "u1", "u2" >>

SeedInit ==
    /\ \/ /\ remote = Scenario
          /\ config \in [ Concurrency : 1..Cardinality(Workers), Retries : 0..MaxRetries ]
          /\ InitCrawler(ScenarioSeeds)
       \/ /\ remote \in { PageOfTwo, Cycle }
          /\ config \in [ Concurrency : {1}, Retries : 0..MaxRetries ]
          /\ InitCrawler(<< "u1" >>)
    /\ InitCheckpoint([ enabled |-> FALSE, interval |-> 0 ], NewData)
    /\ file = Absent
    /\ InitLimiter([ Enabled |-> TRUE, RequestsPerMinute |-> 1 ])
    /\ InitProxyManager(NoProxies)
    /\ InitPool(<< >>, 1)

OutsideSeed == <<checkpointVars, limiterVars, proxyVars, loaderVars, mainVars,
                 managerVars>>

SeedNext ==
    \/ StartSpawn /\ UNCHANGED OutsideCrawler
    \/ StartSpawned /\ UNCHANGED OutsideCrawler
    \/ StartSend /\ UNCHANGED OutsideCrawler
    \/ StartClose /\ UNCHANGED OutsideCrawler
    \/ StartReturn /\ UNCHANGED OutsideCrawler
    \/ \E w \in Workers : WorkerRecv(w) /\ UNCHANGED OutsideCrawler
    \/ \E w \in Workers : WorkerExit(w) /\ UNCHANGED OutsideCrawler
    \/ \E w \in Workers : ScriptedGetUserInfo(w) /\ UNCHANGED OutsideSeed
    \/ \E w \in Workers : ScriptedGetUserVideos(w) /\ UNCHANGED OutsideSeed
    \/ \E w \in Workers : ScriptedGetVideoComments(w) /\ UNCHANGED OutsideSeed
    \/ \E w \in Workers : ScriptedGetProductInfo(w) /\ UNCHANGED OutsideSeed

SeedSpec == SeedInit /\ [][SeedNext]_vars


\* The program from main(): every combination of the flags and arguments
\* above, a crawler of one or two workers, a remote whose every page is the
\* last one.
MainInit ==
    /\ main \in [ pc : { "flags" }, platform : Platforms, cookies : CookieFlags,
                  users : UserFlags, args : ArgLists, err : { "" } ]
    /\ config \in [ Concurrency : 1..Cardinality(Workers), Retries : { 0 } ]
    /\ remote = [ cursors |-> {}, pages |-> PagesUpTo(1) ]
    /\ userIDs = << >>
    /\ urlChannel = << >>
    /\ closed = FALSE
    /\ wg = 0
    /\ startPc = "notcalled"
    /\ spawned = 0
    /\ nextSeed = 1
    /\ worker = [ w \in Workers |-> Idle ]
    /\ received = << >>
    /\ events = << >>
    /\ InitCheckpoint([ enabled |-> FALSE, interval |-> 0 ], NewData)
    /\ file = Absent
    /\ InitLimiter([ Enabled |-> TRUE, RequestsPerMinute |-> 1 ])
    /\ InitProxyManager(NoProxies)
    /\ InitPool(<< >>, 1)

OutsideMain == <<checkpointVars, limiterVars, proxyVars, loaderVars, managerVars>>

MainNext ==
    \/ MainFlags /\ UNCHANGED OutsideMain
    \/ MainInitialize /\ UNCHANGED OutsideMain
    \/ MainStart /\ UNCHANGED OutsideMain
    \/ Next

MainSpec == MainInit /\ [][MainNext]_vars


\* ------------------------------------------------------------- properties
WalkPcs == { "GetUserVideos", "GetVideoComments", "GetProductInfo" }
FetchPcs == { "GetUserVideos", "GetVideoComments" }
Spawned == 1..config.Concurrency
Kinds == { "User", "Video" }
Processed(k) == IF k = "User" THEN data.ProcessedUsers ELSE data.ProcessedVideos
Total(k) == IF k = "User" THEN data.Stats.TotalUsers ELSE data.Stats.TotalVideos

\* C1: no position of the seed list is handed to more than one worker or
\* more than once, and once Start has returned every position has been
\* handed out exactly once (two equal seeds at two positions are two
\* hand-outs).
C1_EverySeedOnce ==
    /\ \A p \in DOMAIN userIDs : Len(received[p]) <= 1
    /\ startPc = "done" => \A p \in DOMAIN userIDs : Len(received[p]) = 1

\* Start has returned and two positions went to two different workers
C1_TwoWorkersShared ==
    /\ startPc = "done"
    /\ \E p, q \in DOMAIN userIDs :
          /\ Len(received[p]) = 1 /\ Len(received[q]) = 1
          /\ received[p] # received[q]

\* C2: a walk never fetches again after a fetch answered with an empty
\* nextCursor or with the cursor that was submitted, and, the remote giving
\* such an answer sooner or later, every walk ends: the worker that is in a
\* walk gets back to its range over the channel.
C2_WalkEnds ==
    /\ [](\A w \in Workers :
            /\ worker[w].pc = "GetUserVideos" => worker[w].hTerm = ""
            /\ worker[w].pc = "GetVideoComments" => worker[w].hCTerm = "")
    /\ \A w \in Workers : (worker[w].pc \in WalkPcs) ~> (worker[w].pc = "recv")

\* a posts walk ended on a repeated cursor, a comments walk on an empty one
C2_EndedOnRepeatedCursor ==
    \E w \in Workers :
        /\ worker[w].pc = "recv"
        /\ worker[w].hTerm = "repeated"
        /\ worker[w].hCTerm = "empty"

\* a failed fetch that is retried: the walk stays where it is
Retried(w) ==
    /\ worker[w].pc \in FetchPcs
    /\ worker'[w].pc = worker[w].pc
    /\ worker'[w].hFails = worker[w].hFails + 1

\* C3: a failed fetch is retried with the same cursor; a walk never has
\* more than Retries + 1 failed fetches in a row, and after the failure
\* number Retries + 1 it fetches no more.
C3_BoundedRetries ==
    /\ [](\A w \in Workers :
            /\ worker[w].hFails <= config.Retries + 1
            /\ worker[w].pc \in FetchPcs => worker[w].hFails <= config.Retries)
    /\ [][\A w \in Workers :
            Retried(w) => /\ worker'[w].cursor = worker[w].cursor
                          /\ worker'[w].ccursor = worker[w].ccursor]_vars

\* a walk was abandoned after at least one retry
C3_AbandonedAfterRetry ==
    \E w \in Workers :
        /\ config.Retries >= 1
        /\ worker[w].hFails = config.Retries + 1

\* C4: under fair scheduling Start returns; the channel is closed only
\* after every seed was enqueued; a worker exits only on the closed and
\* empty channel; Start returns only after every worker it spawned exited.
C4_StartReturns ==
    /\ <>(startPc = "done")
    /\ [](closed => nextSeed > Len(userIDs))
    /\ [](\A w \in Workers : worker[w].pc = "exited" => closed /\ urlChannel = << >>)
    /\ [](startPc = "done" => \A w \in Spawned : worker[w].pc = "exited")

\* Start has returned from a pool of all the workers
C4_ReturnedFullPool ==
    /\ startPc = "done"
    /\ config.Concurrency = Cardinality(Workers)
    /\ \A w \in Workers : worker[w].pc = "exited"
    /\ wg = 0

\* some call of some worker has failed
AnyFailure == \E w \in Workers : worker[w].hErr # ""

\* C5: after a failed call, whichever it was, Start still returns, and when
\* it has, every seed was dequeued and every worker has exited.
C5_FailuresContained ==
    /\ AnyFailure ~> (startPc = "done")
    /\ [](startPc = "done" =>
            /\ \A p \in DOMAIN userIDs : Len(received[p]) = 1
            /\ \A w \in Spawned : worker[w].pc = "exited")
    /\ [](\A w \in Workers : worker[w].pc = "exited" => closed)

\* Start has returned although a profile fetch failed in one worker and a
\* posts fetch in another
C5_ReturnedAfterFailures ==
    /\ startPc = "done"
    /\ \E w, x \in Workers :
          /\ worker[w].hErr = "GetUserInfo"
          /\ worker[x].hErr = "GetUserVideos"
    /\ \A p \in DOMAIN userIDs : Len(received[p]) = 1

\* C6: a walk fetches with the cursor the checkpoint holds for its parent:
\* the resume cursor at its start, and the cursor of the last successful
\* page after that.
C6_WalkFollowsCheckpoint ==
    \A w \in Workers :
        /\ worker[w].pc = "GetUserVideos"
              => worker[w].cursor = GetUserCursor(userIDs[worker[w].pos])
        /\ worker[w].pc = "GetVideoComments"
              => worker[w].ccursor = GetCommentCursor(Head(worker[w].videos).VideoID)

\* the processed-sets, the cursor maps and the counters of two Data
SameContent(d, e) ==
    /\ d.ProcessedUsers = e.ProcessedUsers
    /\ d.ProcessedVideos = e.ProcessedVideos
    /\ d.UserCursors = e.UserCursors
    /\ d.CommentCursors = e.CommentCursors
    /\ d.Stats = e.Stats

\* C7: what a fresh store holds after loading the file that a Save of the
\* current data writes has the processed-sets, cursor maps and counters of
\* the current data (a disabled store writes and loads nothing, and holds
\* what a fresh store holds).
C7_SaveLoadRoundTrip ==
    SameContent(IF mcfg.enabled THEN Loaded(Written(data), NewData) ELSE NewData,
                data)

\* the file is the snapshot of data with a processed user, a cursor and a count
C7_SavedSomething ==
    /\ mcfg.enabled
    /\ file = Written(data)
    /\ TrueKeys(data.ProcessedUsers) # {}
    /\ DOMAIN data.UserCursors.kv # {}
    /\ data.Stats.TotalUsers > 0

\* no call is in progress
Quiescent == ~crashed /\ \A t \in Callers : caller[t].pc = "idle"

C9_NoCallerBlocksItself ==
    \A t \in Callers : caller[t].pc = "lock" => mutex # t

\* C10: a save started by the CheckSave of a Mark* call is started only
\* with a positive interval and at least interval seconds after lastSave,
\* and two such saves are at least interval seconds apart.
C10_AutoSaveOnlyWhenDue ==
    /\ \A i \in DOMAIN hist.autoAt :
          /\ mcfg.interval > 0
          /\ hist.autoAt[i][1] - hist.autoAt[i][2] >= mcfg.interval
    /\ \A i, j \in DOMAIN hist.autoAt :
          i < j => hist.autoAt[j][1] - hist.autoAt[i][1] >= mcfg.interval
    /\ \A t \in Callers : caller[t].auto => CheckSaveDue

\* a Mark* call returned without a save, a later one started the save
C10_SavedWhenDue ==
    /\ Len(hist.autoAt) = 1
    /\ hist.made.User + hist.made.Video >= 1
    /\ hist.applied.User + hist.applied.Video >= 2

\* no map of d is nil
NoNilMap(d) ==
    /\ ~d.ProcessedUsers.nil /\ ~d.ProcessedVideos.nil
    /\ ~d.UserCursors.nil /\ ~d.CommentCursors.nil

\* C11: when the last Load found no file (it returned nil), the store is
\* what it was before: the empty store of NewManager when Load was the
\* first call, and in any case a store with all its maps, on which no call
\* has panicked and whose Mark* calls have all taken effect.
C11_LoadWithoutSnapshot ==
    hist.load = "absent" =>
        /\ ~crashed
        /\ NoNilMap(data)
        /\ hist.calls = 1 => data = NewData
        /\ \A k \in Kinds :
              /\ TrueKeys(Processed(k)) = hist.ids[k]
              /\ Total(k) = hist.applied[k]

\* a Load that found no file, and a user marked and saved on that store
C11_UsedAfterLoad ==
    /\ hist.load = "absent"
    /\ hist.applied.User = 1
    /\ data.Stats.TotalUsers = 1
    /\ file = Written(data)

\* caller t returns from Load in this step
LoadReturns(t) ==
    /\ caller[t].pc = "locked"
    /\ caller[t].op = "Load"
    /\ caller'[t] = NoCall

RECURSIVE SumReturned(_)
SumReturned(S) ==
    IF S = {} THEN 0
    ELSE LET t == CHOOSE x \in S : TRUE
         IN lhist.returned[t] + SumReturned(S \ {t})

\* C13: the bucket never holds fewer than 0 or more than capacity tokens,
\* whoever is anywhere in Wait, and a refill never adds a negative number.
C13_TokensInRange ==
    /\ 0 <= limiter.tokens
    /\ limiter.tokens <= limiter.requestsPerMinute
    /\ limiter.lastRefill <= clock
    /\ TokensToAdd >= 0

\* one goroutine sleeps on the empty bucket after another one slept and
\* took its token
C13_EmptyWithSleeper ==
    /\ lhist.slept
    /\ limiter.tokens = 0
    /\ \E t \in Workers : waiter[t].pc = "sleep"

\* C14, as stated: a call that found the bucket empty returns at least one
\* refill interval after it found it so.
C14_ExtraCallWaitsFullInterval ==
    lhist.slept => lhist.at - lhist.found >= limiter.interval

\* C14, amended: a call that found the bucket empty sleeps until one refill
\* interval after the last refill, which is more than nothing and at most
\* one interval, and returns no earlier than that.
C14_ExtraCallWaitsForRefill ==
    /\ lhist.slept => lhist.at >= lhist.anchor + limiter.interval
    /\ \A t \in Workers : waiter[t].wake > 0 =>
          /\ waiter[t].wake = waiter[t].anchor + limiter.interval
          /\ waiter[t].wake - waiter[t].found \in 1..limiter.interval

\* one goroutine made capacity + 1 calls, and the last one returned less
\* than an interval after it found the bucket empty
C14_ShortWait ==
    /\ \E t \in Workers :
          /\ lhist.returned[t] = limiter.requestsPerMinute + 1
          /\ lhist.calls = lhist.returned[t]
    /\ lhist.slept
    /\ lhist.at - lhist.found < limiter.interval

\* C15: on an enabled limiter the calls that have returned are at most the
\* capacity plus the whole refill intervals elapsed since NewLimiter.
C15_ReturnsBoundedByRefills ==
    limiter.enabled =>
        SumReturned(Workers) <= limiter.requestsPerMinute + clock \div limiter.interval

\* C16: a worker that has made the profile fetch of its seed, and is at or
\* past the posts fetch, has had a Wait() of the limiter return before.
C16_FetchAfterWait ==
    \A w \in Workers :
        worker[w].pc \in WalkPcs => lhist.returned[w] > 0

\* C17: a GetProxy that is about to return holds a usable record
\* (isValid and failCount < maxFailures), or nil when the pool holds no
\* usable record, also while a sweep is validating the records.
C17_GetProxyReturnsUsable ==
    \A t \in Callers : getter[t].pc = "selected" =>
        IF getter[t].sel = 0
        THEN \A i \in 1..Len(pool.proxies) :
                ~Usable(heap[pool.proxies[i]], pool.maxFailures)
        ELSE Usable(heap[getter[t].sel], pool.maxFailures)

HasIdentity(p, ip, port) == p.IP = ip /\ p.Port = port

NoDuplicates ==
    \A i, j \in 1..Len(pool.proxies) :
        i # j => ~HasIdentity(heap[pool.proxies[i]],
                              heap[pool.proxies[j]].IP, heap[pool.proxies[j]].Port)

\* what AddProxy(proxy) is to do: update the one record of that identity in
\* place, or append the record when the pool has none of that identity
AddedOrUpdated(proxy) ==
    LET same == { i \in 1..Len(pool.proxies) :
                    HasIdentity(heap[pool.proxies[i]], proxy.IP, proxy.Port) } IN
    IF same # {}
    THEN /\ pool'.proxies = pool.proxies
         /\ Len(heap') = Len(heap)
         /\ \A o \in 1..Len(heap) :
               IF \E i \in same : pool.proxies[i] = o
               THEN heap'[o] = [ heap[o] EXCEPT !.Protocol = proxy.Protocol,
                                                !.IsValid = proxy.IsValid ]
               ELSE heap'[o] = heap[o]
    ELSE /\ pool'.proxies = Append(pool.proxies, Len(heap) + 1)
         /\ heap' = Append(heap, proxy)

\* what RemoveProxy(ip, port) is to do: drop the records of that identity
\* and keep every other record, in order
RemovedOnly(ip, port) ==
    LET Other(o) == ~HasIdentity(heap[o], ip, port) IN
    /\ pool'.proxies = SelectSeq(pool.proxies, Other)
    /\ heap' = heap

\* C18: the pool, loaded without duplicates, never holds two records of one
\* (IP, Port); AddProxy of an identity the pool holds updates that record in
\* place and does not grow the list, AddProxy of a new identity appends it;
\* RemoveProxy(ip, port) leaves no record of that identity and removes no
\* other record.
C18_OneRecordPerIdentity ==
    /\ []NoDuplicates
    /\ [][ /\ \A proxy \in ProxyArgs : AddProxy(proxy) => AddedOrUpdated(proxy)
           /\ \A id \in Identities : RemoveProxy(id[1], id[2]) => RemovedOnly(id[1], id[2])
         ]_vars

\* the loaded record was updated in place and then removed, and a record of
\* the other identity was added
C18_UpdatedAddedRemoved ==
    /\ Len(heap) = 2
    /\ pool.proxies = << 2 >>
    /\ heap[1].Protocol = ""
    /\ ~HasIdentity(heap[2], heap[1].IP, heap[1].Port)

\* C19: ValidateProxy sets FailCount to 0 and IsValid to true when the probe
\* succeeds; when the validation fails, whatever the cause (the request
\* fails, the status is not 200, the proxy address does not parse), it adds
\* one to FailCount and sets IsValid to false.
C19_EveryFailureCounts ==
    [][ \A i \in DOMAIN sweep.copy, outcome \in ProbeResults \cup { "parse" } :
          ValidateProxy(i, outcome) =>
             LET o == sweep.copy[i] IN
             IF outcome = "ok"
             THEN heap'[o].FailCount = 0 /\ heap'[o].IsValid
             ELSE heap'[o].FailCount = heap[o].FailCount + 1 /\ ~heap'[o].IsValid
      ]_vars

\* C20: when AddProxy and RemoveProxy alone have changed the pool (no sweep
\* has run, no record was handed out) and every goroutine of SaveProxies
\* they started has returned, the proxy file holds the records of the pool.
C20_PersistedEqualsPool ==
    ( /\ Pending = 0
      /\ sweep.count = 0
      /\ \A o \in 1..Len(heap) : heap[o].LastUsed = 0 )
    => proxyFile = MarshalIndent(heap, pool.proxies)

\* the events of one kind in the history of position p
EventsOf(p, op) == { i \in DOMAIN events[p] : events[p][i].op = op }
PostFetches(p) == Cardinality(EventsOf(p, "GetUserVideos"))
NoFailure(p) == \A i \in DOMAIN events[p] : events[p][i].ok
\* the worker that received position p has left it
SeedOver(p) == Len(received[p]) = 1 /\ worker[received[p][1]].pos # p

\* the index of the first page of a script whose nextCursor is empty or is
\* the cursor submitted for it, counting from the page of cursor; 0: none
RECURSIVE TerminalIndex(_, _, _)
TerminalIndex(posts, cursor, n) ==
    IF n > Cardinality(AllCursors) THEN 0
    ELSE IF posts[cursor].next = "" \/ posts[cursor].next = cursor THEN n
    ELSE TerminalIndex(posts, posts[cursor].next, n + 1)

\* C21: with no failed fetch, a posts walk makes as many GetUserVideos
\* calls as the index of the first page whose nextCursor is empty or the
\* cursor submitted, never more while it runs and exactly that many when
\* it is over: 2 per seed in the scenario (start cursor -> "c1" -> "c1").
C21_PostFetchesUpToTerminalPage ==
    \A p \in DOMAIN userIDs :
        LET index == TerminalIndex(remote.posts, "", 1) IN
        NoFailure(p) =>
            /\ index > 0 => PostFetches(p) <= index
            /\ SeedOver(p) /\ events[p] # << >> =>
                  /\ PostFetches(p) = index
                  /\ remote = Scenario => PostFetches(p) = 2

\* the scenario with two workers: Start has returned, each worker had one
\* of the two seeds, no fetch failed, two posts fetches per seed
C21_ScenarioDone ==
    /\ remote = Scenario
    /\ config.Concurrency = 2
    /\ startPc = "done"
    /\ received[1] # received[2]
    /\ \A p \in DOMAIN userIDs :
          /\ NoFailure(p)
          /\ [ i \in 1..Len(events[p]) |-> events[p][i].op ]
                = << "GetUserInfo", "saveUserData", "GetUserVideos", "GetUserVideos" >>
          /\ events[p][3].cursor = "" /\ events[p][4].cursor = "c1"

\* no worker was started, no seed enqueued, no fetch issued
NothingStarted ==
    /\ startPc = "notcalled"
    /\ spawned = 0
    /\ wg = 0
    /\ nextSeed = 1
    /\ urlChannel = << >>
    /\ \A w \in Workers : worker[w].pc = "notstarted"

\* C22: when Initialize has failed (platform not supported, the scraper's
\* Initialize failed, the output directory could not be made) the run has
\* ended, and no worker was started, no seed enqueued and no fetch issued;
\* nor are they before Initialize has succeeded.
C22_FailedInitializeStartsNothing ==
    /\ main.err # "" => main.pc = "fatal" /\ NothingStarted
    /\ main.pc \in { "flags", "Initialize", "fatal" } => NothingStarted

\* Initialize failed at its last step, with a supported platform and valid flags
C22_FailedOnOutputDir ==
    /\ main.pc = "fatal"
    /\ main.err = "mkdir"
    /\ main.platform = "kuaishou"
    /\ main.users # << >>

\* the IDs of a comma-separated list
RECURSIVE SplitByComma(_, _)
SplitByComma(str, id) ==
    IF str = << >> THEN << id >>
    ELSE IF Head(str) = "," THEN << id >> \o SplitByComma(Tail(str), << >>)
    ELSE SplitByComma(Tail(str), Append(id, Head(str)))

\* C23: with no positional argument, Start is given the IDs of the
\* comma-separated -users list, one seed per ID.
C23_UsersOptionIsSplit ==
    main.pc = "Start" /\ NonEmptyArgs(main.args) = << >>
        => userIDs = SplitByComma(main.users, << >>)

\* In the history es of one seed, at event i: the page in hand (the page
\* of the last successful GetUserVideos), the place in it of the post in
\* hand (the number of posts saved since), and the failed events of es[i]'s
\* kind that end at i, es[i] included.
LastPostsFetch(es, i) ==
    LET ok == { j \in 1..i : es[j].op = "GetUserVideos" /\ es[j].ok } IN
    IF ok = {} THEN 0 ELSE CHOOSE j \in ok : \A k \in ok : k <= j
PageInHand(es, i) ==
    IF LastPostsFetch(es, i) = 0 THEN << >>
    ELSE remote.posts[es[LastPostsFetch(es, i)].cursor].page
PostInHand(es, i) ==
    Cardinality({ j \in LastPostsFetch(es, i)..i : es[j].op = "saveVideoData" })
FailRun(es, i) ==
    LET stop == { j \in 1..i : es[j].ok \/ es[j].op # es[i].op } IN
    IF stop = {} THEN i ELSE i - (CHOOSE j \in stop : \A k \in stop : k <= j)

TerminalAnswer(next, cursor) == next = "" \/ next = cursor

\* what may come after the post in hand is done: the next post of the page,
\* else the next page
NextPostOrPage(es, i, cur) ==
    LET page == PageInHand(es, i - 1)
        n == PostInHand(es, i - 1)
        fetch == es[LastPostsFetch(es, i - 1)] IN
    IF n < Len(page)
    THEN cur = Event("saveVideoData", page[n + 1].VideoID, "", TRUE)
    ELSE /\ cur.op = "GetUserVideos"
         /\ cur.cursor = remote.posts[fetch.cursor].next
         /\ ~TerminalAnswer(cur.cursor, fetch.cursor)

\* event i of es is what the order of the steps allows after event i - 1
InOrder(es, i) ==
    LET prev == es[i - 1]
        cur == es[i]
        page == PageInHand(es, i - 1)
        post == page[PostInHand(es, i - 1)] IN
    CASE prev.op = "GetUserInfo" ->
            prev.ok /\ cur = Event("saveUserData", prev.id, "", TRUE)
      [] prev.op = "saveUserData" ->
            cur.op = "GetUserVideos" /\ cur.cursor = ""
      [] prev.op = "GetUserVideos" /\ ~prev.ok ->
            /\ cur.op = "GetUserVideos" /\ cur.cursor = prev.cursor
            /\ FailRun(es, i - 1) <= config.Retries
      [] prev.op = "GetUserVideos" /\ prev.ok -> NextPostOrPage(es, i, cur)
      [] prev.op = "saveVideoData" ->
            cur.op = "GetVideoComments" /\ cur.id = prev.id /\ cur.cursor = ""
      [] prev.op = "GetVideoComments" ->
            IF prev.ok /\ ~TerminalAnswer(remote.comments[prev.cursor], prev.cursor)
            THEN cur.op = "GetVideoComments" /\ cur.id = prev.id
                    /\ cur.cursor = remote.comments[prev.cursor]
            ELSE IF ~prev.ok /\ FailRun(es, i - 1) <= config.Retries
            THEN cur.op = "GetVideoComments" /\ cur.id = prev.id
                    /\ cur.cursor = prev.cursor
            ELSE IF post.ProductID # ""
            THEN cur.op = "GetProductInfo" /\ cur.id = post.ProductID
            ELSE NextPostOrPage(es, i, cur)
      [] prev.op = "GetProductInfo" ->
            IF prev.ok THEN cur = Event("saveProductInfo", prev.id, "", TRUE)
            ELSE NextPostOrPage(es, i, cur)
      [] prev.op = "saveProductInfo" -> NextPostOrPage(es, i, cur)
      [] OTHER -> FALSE

\* C24: the calls made for one seed come in this order: the profile fetch,
\* the profile saved, the posts walk; for each post of a page, in page
\* order: the post saved, its comments walk from its first fetch to its
\* last, its product fetched (and saved when fetched) if and only if the
\* post has a non-empty ProductID; then the next post, and after the last
\* post of the page the next page.
C24_StepsInOrder ==
    \A p \in DOMAIN userIDs :
        /\ events[p] # << >> => events[p][1].op = "GetUserInfo"
        /\ \A i \in 2..Len(events[p]) : InOrder(events[p], i)

\* the seed of the page of two posts is done, without a failed call: post
\* v1 with its two pages of comments and its product, then post v2 with
\* its comments and no product
C24_BothPostsDone ==
    /\ remote = PageOfTwo
    /\ SeedOver(1)
    /\ NoFailure(1)
    /\ [ i \in 1..Len(events[1]) |-> << events[1][i].op, events[1][i].id >> ]
          = << << "GetUserInfo", "u1" >>, << "saveUserData", "u1" >>,
               << "GetUserVideos", "u1" >>, << "saveVideoData", "v1" >>,
               << "GetVideoComments", "v1" >>, << "GetVideoComments", "v1" >>,
               << "GetProductInfo", "p1" >>, << "saveProductInfo", "p1" >>,
               << "saveVideoData", "v2" >>, << "GetVideoComments", "v2" >>,
               << "GetVideoComments", "v2" >> >>

\* C25: a MarkUserProcessed or MarkVideoProcessed call on an enabled store
\* returns: the save that its CheckSave starts when the interval has
\* elapsed never waits for a mutex that only the waiting call can release.
C25_MarkCallsReturn ==
    \A t \in Callers :
        caller[t].auto /\ caller[t].pc = "lock" =>
            \E u \in Callers \ {t} : mutex = u

\* C27: after a Load that installed a snapshot, whatever members it has, no
\* later call fails: the process has not panicked.
C27_PartialSnapshotUsable ==
    hist.load = "loaded" => ~crashed

\* C26: NewProxyPool returns also when the proxy file does not exist: as
\* long as it has not returned, LoadProxies or the SaveProxies call it made
\* can take a step, and when it has returned from a missing file the pool
\* is empty and the file holds the empty list.
C26_NewProxyPoolReturns ==
    /\ loader.pc # "returned" =>
          \/ ENABLED LoadProxies
          \/ ENABLED NewProxyPoolReturns
          \/ ENABLED SaveProxiesMarshal
          \/ \E buf \in BagToSet(persists.writing) : ENABLED SaveProxiesWrite(buf)
    /\ loader.pc = "returned" /\ loader.file = "absent" /\ poolCalls = 0 =>
          pool.proxies = << >> /\ proxyFile = << >>

Walks == { "GetUserVideos", "GetVideoComments" }

\* the failed fetches at the end of es, when they are of the walk op
TrailingFailed(es, op) ==
    IF es # << >> /\ es[Len(es)].op = op /\ ~es[Len(es)].ok
    THEN FailRun(es, Len(es)) ELSE 0

\* event i of position p is a failed fetch after which its walk made no
\* other fetch: the walk was given up there
Abandoned(p, i) ==
    LET es == events[p] IN
    /\ es[i].op \in Walks
    /\ ~es[i].ok
    /\ IF i < Len(es)
       THEN ~(es[i + 1].op = es[i].op /\ es[i + 1].id = es[i].id)
       ELSE \/ SeedOver(p)
            \/ Len(received[p]) = 1 /\ worker[received[p][1]].pc # es[i].op

\* C28: the retry counter of a walk is the number of failed fetches since
\* its last successful one, and a walk is given up only at a failed fetch
\* that ends a run of Retries + 1 consecutive failed fetches; failures
\* separated by a successful fetch do not add up.
C28_OnlyConsecutiveFailuresCount ==
    /\ \A w \in Workers :
          LET wr == worker[w] IN
          /\ wr.pc = "GetUserVideos" =>
                wr.retryCount = TrailingFailed(events[wr.pos], "GetUserVideos")
          /\ wr.pc = "GetVideoComments" =>
                wr.cretry = TrailingFailed(events[wr.pos], "GetVideoComments")
    /\ \A p \in DOMAIN userIDs : \A i \in DOMAIN events[p] :
          Abandoned(p, i) => FailRun(events[p], i) = config.Retries + 1

\* a posts walk of two pages that failed once on each page, two failures
\* in all with Retries = 1, and ended on its terminal page
C28_FailedTwiceNotAbandoned ==
    \E p \in DOMAIN userIDs :
        /\ remote = Scenario
        /\ config.Retries = 1
        /\ SeedOver(p)
        /\ Len(events[p]) = 6
        /\ [ i \in 1..4 |-> << events[p][i + 2].op, events[p][i + 2].cursor,
                               events[p][i + 2].ok >> ]
              = << << "GetUserVideos", "", FALSE >>, << "GetUserVideos", "", TRUE >>,
                   << "GetUserVideos", "c1", FALSE >>, << "GetUserVideos", "c1", TRUE >> >>

C30_NoCursorSubmittedAgain ==
    \A p \in DOMAIN userIDs : \A i, j \in DOMAIN events[p] :
        LET first == events[p][i]
            later == events[p][j] IN
        /\ i < j
        /\ first.op \in Walks /\ first.ok
        /\ later.op = first.op /\ later.id = first.id
        => later.cursor # first.cursor

\* this step writes FailCount, IsValid or LastUsed of a record of the pool
RecordWritten ==
    \E a \in DOMAIN heap :
        \/ heap'[a].FailCount # heap[a].FailCount
        \/ heap'[a].IsValid # heap[a].IsValid
        \/ heap'[a].LastUsed # heap[a].LastUsed

\* C31: a step that writes FailCount, IsValid or LastUsed of a record is
\* made under p.mutex.Lock(): no goroutine holds p.mutex.RLock() when it
\* starts, and none, the writer included, holds it when it ends.
C31_RecordsWrittenUnderLock ==
    [][RecordWritten /\ DOMAIN heap \subseteq DOMAIN heap'
          => pool.readers = 0 /\ pool'.readers = 0]_vars

\* C32: a sweep takes the records that are in the pool when it starts and
\* owes each of them one probe; a probe is made only for a record still
\* owed one and settles it, so that no record is probed twice, and a call
\* on the pool meanwhile adds none; any of the owed probes may be the next
\* to finish (they run concurrently); and the sweep's SaveProxies starts
\* only when no probe is owed.
C32_SweepProbesEachOnce ==
    [][ /\ ValidateAllProxies =>
              /\ sweep'.copy = pool.proxies
              /\ sweep'.todo = DOMAIN pool.proxies
        /\ \A i \in DOMAIN sweep.copy, outcome \in ProbeResults \cup { "parse" } :
              ValidateProxy(i, outcome) =>
                 /\ i \in sweep.todo
                 /\ sweep'.todo = sweep.todo \ {i}
                 /\ sweep'.copy = sweep.copy
        /\ sweep.pc = "probing" /\ sweep'.pc = "probing" =>
              /\ sweep'.todo \subseteq sweep.todo
              /\ \A i \in sweep'.todo :
                    \E outcome \in ProbeResults \cup { "parse" } :
                       ENABLED ValidateProxy(i, outcome)
        /\ SweepMarshal => sweep.todo = {}
        /\ sweep'.pc = "WriteFile" => sweep'.todo = {}
      ]_vars

\* a sweep over two records has probed both and is writing the file
C32_SweptTwoRecords ==
    /\ sweep.pc = "WriteFile"
    /\ sweep.count = 1
    /\ sweep.todo = {}
    /\ Len(sweep.buf) = 2

\* the workers that have a seed in progress
Crawling == { w \in Workers : worker[w].pos # 0 }

\* at most Concurrency workers exist and at most Concurrency seeds are in
\* progress, no seed is in progress at two workers, and a seed is received
\* once
AtMostConcurrencySeeds ==
    /\ Cardinality({ w \in Workers : worker[w].pc # "notstarted" }) <= config.Concurrency
    /\ Cardinality(Crawling) <= config.Concurrency
    /\ \A v, w \in Crawling : v # w => worker[v].pos # worker[w].pos
    /\ \A p \in DOMAIN userIDs : Len(received[p]) <= 1

\* C33: at every moment at most Concurrency seeds are in progress, one per
\* worker at most; a worker takes a seed only when it has none in progress,
\* it gives up a seed only to go back to the range over the channel, and a
\* call for a seed is made only by the worker that has it in progress: once
\* a worker has received its next seed, nothing more is done for the one
\* before.
C33_OneSeedAtATime ==
    []AtMostConcurrencySeeds /\
    [][ /\ \A w \in Workers :
              /\ worker'[w].pos # worker[w].pos /\ worker'[w].pos # 0 =>
                    worker[w].pos = 0 /\ worker[w].pc = "recv"
              /\ worker'[w].pos # worker[w].pos /\ worker'[w].pos = 0 =>
                    worker'[w].pc = "recv"
        /\ \A p \in DOMAIN userIDs :
              events'[p] # events[p] =>
                 \E w \in Workers : worker[w].pos = p /\ received[p] = << w >>
      ]_vars

\* the one worker crawls its second seed, the first one done to its
\* terminal page
C33_SecondSeedAfterFirst ==
    /\ remote = Scenario
    /\ config.Concurrency = 1
    /\ Len(received[2]) = 1
    /\ received[1] = received[2]
    /\ Crawling = { received[2][1] }
    /\ worker[received[2][1]].pos = 2
    /\ Len(events[1]) = 4
    /\ events[1][4] = Event("GetUserVideos", "u1", "c1", TRUE)

\* the processed-sets, the cursors and the counters of d
Progress(d) ==
    << d.ProcessedUsers, d.ProcessedVideos, d.UserCursors, d.CommentCursors, d.Stats >>

\* C34: a Save whose write failed leaves lastSave and the processed-sets,
\* cursors and counters as they were; and a Mark* call whose CheckSave
\* starts a save has its mark and its increment applied and goes on to
\* that save, to return whether the write succeeds or fails: it does not
\* wait for the mutex it holds.
C34_FailedSaveIsHarmless ==
    [][ \A t \in Callers :
          /\ Save(t) /\ file' # Written(data') =>
                /\ lastSave' = lastSave
                /\ Progress(data') = Progress(data)
          /\ (MarkUserProcessed(t) \/ MarkVideoProcessed(t)) /\ caller'[t].auto =>
                /\ Progress(data') # Progress(data)
                /\ caller'[t].pc = "lock" => mutex' # t
      ]_vars

\* caller t makes the write of a mutating method in this step
Mutates(t) ==
    \/ MarkUserProcessed(t) \/ MarkVideoProcessed(t)
    \/ SetUserCursor(t) \/ SetCommentCursor(t)
    \/ IncrementCommentCount(t) \/ IncrementProductCount(t)

\* C35: a mutating call that writes when the interval has elapsed goes on
\* to save the snapshot, whichever of the six methods it is.
C35_EveryMutationChecksSave ==
    [][ \A t \in Callers :
          Mutates(t) /\ ~crashed' /\ CheckSaveDue =>
             caller'[t].op = "Save" /\ caller'[t].auto ]_vars

\* the elements of a list
Elements(list) == { list[i] : i \in DOMAIN list }

\* Manager m is in order after the calls of r: the index is within the
\* list, every call that has returned returned an element of the list, and
\* the index is count positions, cyclically, after the one the run of
\* RotateProxy calls started from
InOrderManager(m, r) ==
    /\ m.currentIndex \in 0..(Len(m.proxyList) - 1)
    /\ \A t \in Callers :
          r.caller[t].pc = "idle" /\ r.caller[t].op # "" =>
             r.caller[t].ret \in Elements(m.proxyList)
    /\ m.currentIndex = (r.run.from + r.run.count) % Len(m.proxyList)

\* what one step of RotateProxy or GetProxy does: RotateProxy moves the
\* index one position, cyclically; GetProxy leaves it or moves it one
\* position, and moves it only when more than rotationInterval seconds have
\* passed since lastRotation; both return the proxy at the new index
RotatesByOne ==
    \A t \in Callers :
        /\ ManagerRotateProxy(t) =>
              /\ proxyManager'.currentIndex =
                    (proxyManager.currentIndex + 1) % Len(proxyManager.proxyList)
              /\ rotation'.caller[t].ret = CurrentProxy(proxyManager')
        /\ ManagerGetProxy(t) =>
              /\ \/ proxyManager'.currentIndex = proxyManager.currentIndex
                 \/ /\ proxyManager'.currentIndex =
                          (proxyManager.currentIndex + 1) % Len(proxyManager.proxyList)
                    /\ rotation.now - proxyManager.lastRotation
                          > proxyManager.rotationInterval
              /\ rotation'.caller[t].ret = CurrentProxy(proxyManager')

\* C36, as stated: with a non-empty list the Manager is in order after
\* every step, and every step of RotateProxy and GetProxy rotates by one as
\* described.
C36_RotationAsStated ==
    [][ Len(proxyManager.proxyList) > 0 =>
           InOrderManager(proxyManager', rotation') /\ RotatesByOne ]_vars

\* C36, amended: the same for an enabled Manager with a non-empty list; a
\* disabled Manager returns "" from both methods and never moves its index.
C36_RotationWhenEnabled ==
    [][ /\ proxyManager.enabled /\ Len(proxyManager.proxyList) > 0 =>
              InOrderManager(proxyManager', rotation') /\ RotatesByOne
        /\ ~proxyManager.enabled =>
              /\ proxyManager' = proxyManager
              /\ \A t \in Callers : rotation'.caller[t].ret = "" ]_vars

\* three RotateProxy calls in a row on a list of three: back at the start
C36_FullCycle ==
    /\ proxyManager.enabled
    /\ Len(proxyManager.proxyList) = 3
    /\ rotation.run.count = 3
    /\ proxyManager.currentIndex = rotation.run.from
    /\ \E t \in Callers : rotation.caller[t] =
          [ pc |-> "idle", op |-> "RotateProxy", ret |-> CurrentProxy(proxyManager) ]

====
